---- MODULE Spec2Model ----
(***************************************************************************)
(* Workload environment subsystem of the node agent: the statistics poller *)
(* of one environment running against the lifecycle driver, and the        *)
(* bootstrap of the container network (ConfigureDocker).                   *)
(***************************************************************************)
EXTENDS Integers, Sequences, FiniteSets, TLC

(* ------------------------------ bounds -------------------------------- *)
\* Host bindings one container port can carry.
MaxBindings == 2
\* Samples one statistics stream can deliver before it only ends or fails.
MaxSamples == 2
\* Largest Read - PreRead difference (ms) a sample carries.
MaxDelta == 1
\* Largest wall-clock uptime (ms) the runtime's start timestamp yields.
MaxSince == 1
\* ConfigureDocker calls made one after the other.
MaxCalls == 3
\* Goroutines calling Docker() concurrently, and calls each of them makes.
MaxCallers == 2
MaxDockerCalls == 2
\* Goroutines calling config.Get, and config.Update calls made.
MaxReaders == 2
MaxUpdates == 2
\* Goroutines calling config.WriteToDisk.
MaxWriters == 2
\* Entries of the root directory of a filesystem call.
MaxEntries == 2
\* Memory counters are 0..MaxUsage.
MaxUsage == 3
\* CPU counters are within MaxCounter of either end of their range.
MaxCounter == 1
\* Processors of a reading.
MaxCpus == 2
\* Elapsed time between two reads, in 100ns intervals either way.
MaxIntervals == 1
\* The width of the unsigned counters and the significand of the floating
\* point numbers they are converted to (64 and 53 in the build), scaled down
\* alike.
WordBits == 8
MantissaBits == 5

(* --------------------------- process states --------------------------- *)
ProcessOfflineState == "offline"
ProcessStartingState == "starting"
ProcessRunningState == "running"
ProcessStoppingState == "stopping"
ProcessStates ==
    {ProcessOfflineState, ProcessStartingState, ProcessRunningState, ProcessStoppingState}

(* ------------------------------ variables ----------------------------- *)
VARIABLES
    st,          \* e.st: the environment's ProcessState
    ctxDone,     \* the ctx handed to pollResources has been cancelled
    pc,          \* position of the pollResources goroutine
    ret,         \* return value of pollResources
    v,           \* the types.StatsJSON decoded last
    uptime,      \* local variable uptime of pollResources
    bodyOpen,    \* stats.Body is open
    closes,      \* calls of stats.Body.Close in this invocation
    statsCalls,  \* calls of client.ContainerStats in this invocation
    uptimeCalls, \* calls of e.Uptime in this invocation
    warned,      \* the Uptime failure was logged as a warning
    received,    \* samples decoded from the stream in this invocation
    published,   \* events published on the resource topic in this invocation
    entrySt,     \* the state loaded by the precondition of pollResources
    decodeErr,   \* the error the failing Decode returned
    lastLog,     \* level of the log line written for the failing Decode
    exitAt,      \* the return statement pollResources left through
    cancelMark,  \* lengths of published/received when ctx was cancelled
    offlineMark, \* the same when the state became Offline while streaming,
                 \* for as long as it stays Offline
    baseline,    \* what e.Uptime returned to this invocation
    uptimeIns,   \* what ContainerInspect answered inside that e.Uptime
    cfg,         \* _config.Docker.Network: the global configuration
    host,        \* the network of the configured name on the container runtime
    conce,       \* _conce has run
    client,      \* _client
    npc,         \* position of ConfigureDocker
    nret,        \* return value of ConfigureDocker
    cli,         \* local variable cli of ConfigureDocker
    resource,    \* local variable resource of ConfigureDocker
    nw,          \* local variable nw of createDockerNetwork
    calls,       \* ConfigureDocker calls made so far
    rets,        \* their return values, in order
    cfg0,        \* the configuration when the running call began
    host0,       \* the runtime's network when the first call began
    existed,     \* the network existed when the running call began
    inspected,   \* what NetworkInspect answered in the running call
    created,     \* NetworkCreate calls of the running call
    createCalls, \* NetworkCreate calls of all calls
    dpc,         \* position of each goroutine inside Docker()
    derr,        \* local variable err of each running Docker() call
    dret,        \* what each goroutine's last Docker() call returned
    onceM,       \* holder of the mutex of _conce (0: free)
    constructs,  \* runs of client.NewClientWithOpts
    dcalls,      \* Docker() calls each goroutine has made
    muW,         \* mu is write-locked
    muR,         \* the goroutines holding mu read-locked
    upc,         \* position of the goroutine running config.Update
    ud,          \* the driver the running Update callback records
    updates,     \* config.Update calls completed
    stable,      \* the configuration when mu was last released by a writer
    backing,     \* backing array of the stored AllowedMounts slice
    committed,   \* what Update last wrote: the configuration and the mounts
    gpc,         \* position of each goroutine calling config.Get
    snap,        \* the struct each goroutine's last Get returned
    wlock,       \* the goroutine holding _writeLock, 0 when free
    wpc,         \* position of each goroutine calling WriteToDisk
    wc,          \* the configuration each call was given
    wcc,         \* ccopy of each call
    wbuf,        \* the marshalled bytes of each call
    wret,        \* what each goroutine's last call returned
    wheld,       \* mu was write-locked at every step of the call so far
    file,        \* the lines of the configuration file
    sdpc,        \* position of the goroutine running SetDebugViaFlag
    sdd,         \* the argument of the running SetDebugViaFlag
    debug,       \* _config.Debug
    debugViaFlag, \* _debugViaFlag
    tree,        \* the kind of every entry under the root of the call
    fsOp,        \* the filesystem operation called
    fspc,        \* its position
    todo,        \* entries found by the walk, their callback still to run
    visited,     \* entries the callback has run for
    chowned,     \* entries ownership was applied to
    chFirst,     \* the first of them, -1 before
    size,        \* the running total of DirectorySize
    statT,       \* the size in the Stat_t the callbacks of one walk share
    fsFault,     \* a system call of the operation has failed
    fsret,       \* what the operation returned
    contrib,     \* what DirectorySize added for each entry, -1 when nothing
    statFn,      \* the statistics function last called
    statIn,      \* the reading it was given
    statOut,     \* what it returned, as a fraction
    hcFn,        \* the container settings function last called
    limIn,       \* the limits it was given
    limOut,      \* the container.Resources it returned
    bindIn,      \* what a.DockerBindings() gave it
    bindOut,     \* the PortBindings it put in the host configuration
    storedConfig,   \* _config: the stored configuration, set once Set ran
    jwtAlgo,        \* _jwtAlgo
    jwtViaFlag,     \* _debugViaFlag as SetDebugViaFlag stores it
    jwtGot          \* what GetJwtAlgorithm last returned, and for which token

pollVars == <<st, ctxDone, pc, ret, v, uptime, bodyOpen, closes, statsCalls,
              uptimeCalls, warned, received, published, entrySt, decodeErr,
              lastLog, exitAt, cancelMark, offlineMark, baseline,
              uptimeIns>>

netVars == <<cfg, host, conce, client, npc, nret, cli, resource, nw, calls, rets,
             cfg0, host0, existed, inspected, created, createCalls>>

\* The network part without the client singleton.
netRest == <<cfg, host, npc, nret, cli, resource, nw, calls, rets, cfg0, host0,
             existed, inspected, created, createCalls>>

onceVars == <<dpc, derr, dret, onceM, constructs, dcalls>>

\* The network part without the stored configuration.
netNoCfg == <<host, conce, client, npc, nret, cli, resource, nw, calls, rets,
              cfg0, host0, existed, inspected, created, createCalls>>

muVars == <<muW, muR>>
updVars == <<upc, ud, updates, stable, committed>>
getVars == <<gpc, snap, backing>>
cfgVars == <<muVars, updVars, getVars>>

writeVars == <<wlock, wpc, wc, wcc, wbuf, wret, wheld, file>>
flagVars == <<sdpc, sdd, debug, debugViaFlag>>
diskVars == <<writeVars, flagVars>>

statVars == <<statFn, statIn, statOut>>
hcVars == <<hcFn, limIn, limOut, bindIn, bindOut>>
jwtVars == <<storedConfig, jwtAlgo, jwtViaFlag, jwtGot>>

fsVars == <<tree, fsOp, fspc, todo, visited, chowned, chFirst, size, statT,
           fsFault, fsret, contrib>>

\* The parts the Docker() singleton leaves alone, besides the poller and the
\* network.
notOnceExtra == <<cfgVars, diskVars, fsVars, statVars, hcVars, jwtVars>>

extraVars == <<onceVars, cfgVars, diskVars, fsVars, statVars, hcVars, jwtVars>>

notPollVars == <<netVars, extraVars>>
notNetVars == <<pollVars, extraVars>>

vars == <<pollVars, netVars, extraVars>>

NoMark == [pub |-> -1, recv |-> -1]
NoSample == [seq |-> 0, preReadZero |-> TRUE, delta |-> 0]
\* No ContainerInspect yet.
NoInspect == [err |-> FALSE, running |-> FALSE, parses |-> FALSE, since |-> 0]
Streaming == {"select", "decode", "check", "publish"}

(* ------------------------- lifecycle driver --------------------------- *)
\* Offline -> Starting -> Running -> Stopping -> Offline, and any state may
\* drop to Offline when a crash or kill is detected.
ValidTransition(from, to) ==
    \/ from = ProcessOfflineState /\ to = ProcessStartingState
    \/ from = ProcessStartingState /\ to = ProcessRunningState
    \/ from = ProcessRunningState /\ to = ProcessStoppingState
    \/ from # ProcessOfflineState /\ to = ProcessOfflineState

SetState(s) ==
    /\ UNCHANGED notPollVars
    /\ UNCHANGED <<baseline, uptimeIns>>
    /\ ValidTransition(st, s)
    /\ st' = s
    /\ offlineMark' =
         IF s = ProcessOfflineState /\ pc \in Streaming
         THEN [pub |-> Len(published), recv |-> Len(received)]
         ELSE IF s # ProcessOfflineState THEN NoMark
         ELSE offlineMark
    /\ UNCHANGED <<ctxDone, pc, ret, v, uptime, bodyOpen, closes, statsCalls,
                   uptimeCalls, warned, received, published, entrySt, decodeErr,
                   lastLog, exitAt, cancelMark>>

\* The owner of the context cancels it while pollResources is running.
Cancel ==
    /\ UNCHANGED notPollVars
    /\ UNCHANGED <<baseline, uptimeIns>>
    /\ pc \notin {"idle", "done"}
    /\ ~ctxDone
    /\ ctxDone' = TRUE
    /\ cancelMark' = [pub |-> Len(published), recv |-> Len(received)]
    /\ UNCHANGED <<st, pc, ret, v, uptime, bodyOpen, closes, statsCalls,
                   uptimeCalls, warned, received, published, entrySt, decodeErr,
                   lastLog, exitAt, offlineMark>>

(* ------------------------------ Uptime -------------------------------- *)
\* What ContainerInspect can answer: an error, a container that is not
\* running, a start timestamp that does not parse, or one that lies `since`
\* milliseconds in the past.
InspectResults ==
    {[err |-> TRUE, running |-> FALSE, parses |-> FALSE, since |-> 0],
     [err |-> FALSE, running |-> FALSE, parses |-> TRUE, since |-> 0],
     [err |-> FALSE, running |-> TRUE, parses |-> FALSE, since |-> 0]}
    \cup {[err |-> FALSE, running |-> TRUE, parses |-> TRUE, since |-> s] :
            s \in 0..MaxSince}

Uptime(ins) ==
    IF ins.err THEN [ms |-> 0, err |-> TRUE]
    ELSE IF ~ins.running THEN [ms |-> 0, err |-> FALSE]
    ELSE IF ~ins.parses THEN [ms |-> 0, err |-> TRUE]
    ELSE [ms |-> ins.since, err |-> FALSE]

(* --------------------------- pollResources ---------------------------- *)
ReturnWithoutClose(r, how) ==
    /\ pc' = "done"
    /\ ret' = r
    /\ exitAt' = how
    /\ UNCHANGED <<bodyOpen, closes>>

\* A return statement of pollResources: the deferred stats.Body.Close runs
\* when the stream had been attached.
Return(r, how) ==
    /\ pc' = "done"
    /\ ret' = r
    /\ exitAt' = how
    /\ bodyOpen' = FALSE
    /\ closes' = IF bodyOpen THEN closes + 1 ELSE closes

\* go e.pollResources(ctx): a fresh invocation with a live context.
pollInvoke ==
    /\ UNCHANGED notPollVars
    /\ baseline' = 0
    /\ uptimeIns' = NoInspect
    /\ pc \in {"idle", "done"}
    /\ pc' = "entry"
    /\ ctxDone' = FALSE
    /\ ret' = "none"
    /\ v' = NoSample
    /\ uptime' = 0
    /\ bodyOpen' = FALSE
    /\ closes' = 0
    /\ statsCalls' = 0
    /\ uptimeCalls' = 0
    /\ warned' = FALSE
    /\ received' = <<>>
    /\ published' = <<>>
    /\ entrySt' = "none"
    /\ decodeErr' = "none"
    /\ lastLog' = "none"
    /\ exitAt' = "none"
    /\ cancelMark' = NoMark
    /\ offlineMark' = NoMark
    /\ UNCHANGED st

pollEntryNoCheck ==
    /\ UNCHANGED notPollVars
    /\ UNCHANGED <<baseline, uptimeIns>>
    /\ pc = "entry"
    /\ entrySt' = st
    /\ pc' = "attach"
    /\ UNCHANGED <<st, ctxDone, ret, v, uptime, bodyOpen, closes, statsCalls,
                   uptimeCalls, warned, received, published, decodeErr, lastLog,
                   exitAt, cancelMark, offlineMark>>

\* if e.st.Load() == environment.ProcessOfflineState { return errors.New(...) }
pollEntry ==
    /\ UNCHANGED notPollVars
    /\ UNCHANGED <<baseline, uptimeIns>>
    /\ pc = "entry"
    /\ entrySt' = st
    /\ IF st = ProcessOfflineState
       THEN Return("errStopped", "entry")
       ELSE /\ pc' = "attach"
            /\ UNCHANGED <<ret, exitAt, bodyOpen, closes>>
    /\ UNCHANGED <<st, ctxDone, v, uptime, statsCalls, uptimeCalls, warned,
                   received, published, decodeErr, lastLog, cancelMark,
                   offlineMark>>

\* stats, err := e.client.ContainerStats(ctx, e.Id, true); defer Close
pollAttach ==
    /\ UNCHANGED notPollVars
    /\ UNCHANGED <<baseline, uptimeIns>>
    /\ pc = "attach"
    /\ statsCalls' = statsCalls + 1
    /\ \E ok \in BOOLEAN :
         IF ok
         THEN /\ bodyOpen' = TRUE
              /\ pc' = "uptime"
              /\ UNCHANGED <<ret, exitAt, closes>>
         ELSE Return("errStats", "attach")
    /\ UNCHANGED <<st, ctxDone, v, uptime, uptimeCalls, warned, received,
                   published, entrySt, decodeErr, lastLog, cancelMark,
                   offlineMark>>

pollUptimeFatal ==
    /\ UNCHANGED notPollVars
    /\ pc = "uptime"
    /\ uptimeCalls' = uptimeCalls + 1
    /\ \E ins \in InspectResults :
         /\ uptimeIns' = ins
         /\ uptime' = Uptime(ins).ms
         /\ baseline' = Uptime(ins).ms
         /\ warned' = Uptime(ins).err
         /\ IF Uptime(ins).err
            THEN Return("errUptime", "uptime")
            ELSE /\ pc' = "select"
                 /\ UNCHANGED <<ret, exitAt, bodyOpen, closes>>
    /\ UNCHANGED <<st, ctxDone, v, statsCalls, received,
                   published, entrySt, decodeErr, lastLog, cancelMark,
                   offlineMark>>

\* uptime, err := e.Uptime(ctx); an error is only logged.
pollUptime ==
    /\ UNCHANGED notPollVars
    /\ pc = "uptime"
    /\ uptimeCalls' = uptimeCalls + 1
    /\ \E ins \in InspectResults :
         /\ uptimeIns' = ins
         /\ uptime' = Uptime(ins).ms
         /\ baseline' = Uptime(ins).ms
         /\ warned' = Uptime(ins).err
    /\ pc' = "select"
    /\ UNCHANGED <<st, ctxDone, ret, v, bodyOpen, closes, statsCalls, received,
                   published, entrySt, decodeErr, lastLog, exitAt, cancelMark,
                   offlineMark>>

pollSelectIgnoreDone ==
    /\ UNCHANGED notPollVars
    /\ UNCHANGED <<baseline, uptimeIns>>
    /\ pc = "select"
    /\ pc' = "decode"
    /\ UNCHANGED <<st, ctxDone, ret, v, uptime, bodyOpen, closes, statsCalls,
                   uptimeCalls, warned, received, published, entrySt, decodeErr,
                   lastLog, exitAt, cancelMark, offlineMark>>

\* select { case <-ctx.Done(): return ctx.Err(); default: ... }
pollSelect ==
    /\ UNCHANGED notPollVars
    /\ UNCHANGED <<baseline, uptimeIns>>
    /\ pc = "select"
    /\ IF ctxDone
       THEN Return("ctxErr", "ctxDone")
       ELSE /\ pc' = "decode"
            /\ UNCHANGED <<ret, exitAt, bodyOpen, closes>>
    /\ UNCHANGED <<st, ctxDone, v, uptime, statsCalls, uptimeCalls, warned,
                   received, published, entrySt, decodeErr, lastLog, cancelMark,
                   offlineMark>>

\* The errors dec.Decode can return: end of stream, the cancellation of the
\* context the request was made with, anything else (malformed JSON, a
\* broken connection).
DecodeErrors == {"eof", "canceled", "other"}
DecodeFailures == {e \in DecodeErrors : e = "canceled" => ctxDone}
\* The samples the stream can deliver next: Read - PreRead is delta, and a
\* sample without PreRead still has a Read timestamp, so its delta is not 0.
DecodeSamples ==
    IF Len(received) < MaxSamples
    THEN {[seq |-> Len(received) + 1, preReadZero |-> FALSE, delta |-> d] :
            d \in 1..MaxDelta}
         \cup {[seq |-> Len(received) + 1, preReadZero |-> TRUE, delta |-> MaxDelta]}
    ELSE {}

\* The return value the failing Decode leads to.
DecodeFailureReturnsError(e) == IF e = "other" THEN "errDecode" ELSE "nil"
DecodeFailureReturn(e) == "nil"
DecodeFailureLog(e) == IF e # "eof" /\ e # "canceled" THEN "warn" ELSE "debug"

\* var v types.StatsJSON; if err := dec.Decode(&v); err != nil { ... return nil }
pollDecode ==
    /\ UNCHANGED notPollVars
    /\ UNCHANGED <<baseline, uptimeIns>>
    /\ pc = "decode"
    /\ \/ \E e \in DecodeFailures :
            /\ decodeErr' = e
            /\ lastLog' = DecodeFailureLog(e)
            /\ Return(DecodeFailureReturn(e), "decode")
            /\ UNCHANGED <<v, received>>
       \/ \E s \in DecodeSamples :
            /\ v' = s
            /\ received' = Append(received, s)
            /\ pc' = "check"
            /\ UNCHANGED <<ret, exitAt, bodyOpen, closes, decodeErr, lastLog>>
    /\ UNCHANGED <<st, ctxDone, uptime, statsCalls, uptimeCalls, warned,
                   published, entrySt, cancelMark, offlineMark>>

\* if e.st.Load() == environment.ProcessOfflineState { return nil }
pollCheck ==
    /\ UNCHANGED notPollVars
    /\ UNCHANGED <<baseline, uptimeIns>>
    /\ pc = "check"
    /\ IF st = ProcessOfflineState
       THEN Return("nil", "offline")
       ELSE /\ pc' = "publish"
            /\ UNCHANGED <<ret, exitAt, bodyOpen, closes>>
    /\ UNCHANGED <<st, ctxDone, v, uptime, statsCalls, uptimeCalls, warned,
                   received, published, entrySt, decodeErr, lastLog, cancelMark,
                   offlineMark>>

NextUptimeAnyPreRead(u, s) == u + s.delta
\* if !v.PreRead.IsZero() { uptime = uptime + v.Read.Sub(v.PreRead).Milliseconds() }
NextUptime(u, s) == IF ~s.preReadZero THEN u + s.delta ELSE u

\* The environment.Stats built from v, with whether the environment is
\* Offline when the event bus is handed it.
StatsEvent(s, u) ==
    [seq |-> s.seq, uptime |-> u, offline |-> st = ProcessOfflineState]

PublishTwice(q, ev) == Append(Append(q, ev), ev)
\* e.Events().Publish(environment.ResourceEvent, st)
Publish(q, ev) == Append(q, ev)

pollPublish ==
    /\ UNCHANGED notPollVars
    /\ UNCHANGED <<baseline, uptimeIns>>
    /\ pc = "publish"
    /\ uptime' = NextUptime(uptime, v)
    /\ published' = Publish(published, StatsEvent(v, NextUptime(uptime, v)))
    /\ pc' = "select"
    /\ UNCHANGED <<st, ctxDone, ret, v, bodyOpen, closes, statsCalls,
                   uptimeCalls, warned, received, entrySt, decodeErr, lastLog,
                   exitAt, cancelMark, offlineMark>>

InitPoll ==
    /\ st = ProcessOfflineState
    /\ ctxDone = FALSE
    /\ pc = "idle"
    /\ ret = "none"
    /\ v = NoSample
    /\ uptime = 0
    /\ bodyOpen = FALSE
    /\ closes = 0
    /\ statsCalls = 0
    /\ uptimeCalls = 0
    /\ warned = FALSE
    /\ received = <<>>
    /\ published = <<>>
    /\ entrySt = "none"
    /\ decodeErr = "none"
    /\ lastLog = "none"
    /\ exitAt = "none"
    /\ cancelMark = NoMark
    /\ offlineMark = NoMark
    /\ baseline = 0
    /\ uptimeIns = NoInspect

NextPoll ==
    \/ \E s \in ProcessStates : SetState(s)
    \/ Cancel
    \/ pollInvoke
    \/ pollEntry
    \/ pollAttach
    \/ pollUptime
    \/ pollSelect
    \/ pollDecode
    \/ pollCheck
    \/ pollPublish

(* -------------------------- network bootstrap ------------------------- *)
\* Drivers a network can have: the three the code names and two others.
Drivers == {"host", "overlay", "weavemesh", "nat", "bridge"}
\* Addresses the configuration file can give as interface and as v4 gateway.
Interfaces == {"172.18.0.1", "10.0.0.1"}
Gateways == {"172.18.0.1", "172.19.0.1"}

\* The zero value of types.NetworkResource.
ZeroResource == [Driver |-> ""]
NoNetwork == [exists |-> FALSE, driver |-> ""]

\* A return statement of ConfigureDocker.
netReturn(r) ==
    /\ npc' = "done"
    /\ nret' = r
    /\ rets' = Append(rets, r)

\* ConfigureDocker(ctx) is called (again) once the previous call returned.
cdInvoke ==
    /\ UNCHANGED notNetVars
    /\ npc \in {"idle", "done"}
    /\ calls < MaxCalls
    /\ calls' = calls + 1
    /\ npc' = "docker"
    /\ nret' = "none"
    /\ cli' = "nil"
    /\ resource' = ZeroResource
    /\ nw' = cfg
    /\ cfg0' = cfg
    /\ existed' = host.exists
    /\ inspected' = "none"
    /\ created' = 0
    /\ UNCHANGED <<cfg, host, conce, client, rets, host0, createCalls>>

\* Docker(): _conce.Do(func() { _client, err = client.NewClientWithOpts(...) })
\* return _client, errors.Wrap(err, ...): err is the caller's own local, so it
\* is non-nil only in the call that ran the constructor and saw it fail.
cdDocker ==
    /\ UNCHANGED notNetVars
    /\ npc = "docker"
    /\ \E ok \in BOOLEAN :
         LET built == IF conce THEN client ELSE IF ok THEN "client" ELSE "nil"
             err == ~conce /\ ~ok
         IN /\ conce' = TRUE
            /\ client' = built
            /\ IF err
               THEN /\ netReturn("errClient")
                    /\ UNCHANGED cli
               ELSE /\ cli' = built
                    /\ npc' = "inspect"
                    /\ UNCHANGED <<nret, rets>>
    /\ UNCHANGED <<cfg, host, resource, nw, calls, cfg0, host0, existed,
                   inspected, created, createCalls>>

\* What cli.NetworkInspect can answer for the runtime's network.
InspectAnswers(h) == IF h.exists THEN {"found", "error"} ELSE {"notfound", "error"}

AfterInspectCreateOnAnyError(answer) ==
    IF answer = "found" THEN "update" ELSE "create"
\* if err != nil { if client.IsErrNotFound(err) { create } else { return err } }
AfterInspect(answer) ==
    IF answer = "found" THEN "update"
    ELSE IF answer = "notfound" THEN "create"
    ELSE "return"

\* nw := config.Get().Docker.Network; resource, err := cli.NetworkInspect(...)
\* A nil cli makes the call dereference a nil pointer.
cdInspect ==
    /\ UNCHANGED notNetVars
    /\ npc = "inspect"
    /\ IF cli = "nil"
       THEN /\ npc' = "panic"
            /\ UNCHANGED <<nret, rets, resource, inspected>>
       ELSE \E answer \in InspectAnswers(host) :
              /\ inspected' = answer
              /\ resource' = IF answer = "found" THEN [Driver |-> host.driver]
                             ELSE ZeroResource
              /\ IF AfterInspect(answer) = "return"
                 THEN netReturn("errInspect")
                 ELSE /\ npc' = AfterInspect(answer)
                      /\ UNCHANGED <<nret, rets>>
    /\ UNCHANGED <<cfg, host, conce, client, cli, nw, calls, cfg0, host0,
                   existed, created, createCalls>>

GatewayWrittenAlways(driver) == TRUE
\* if nw.Driver != "host" && nw.Driver != "overlay" && nw.Driver != "weavemesh"
GatewayWritten(driver) ==
    driver # "host" /\ driver # "overlay" /\ driver # "weavemesh"

\* config.Update(func(c) { c.Docker.Network.Interface = c...Interfaces.V4.Gateway })
WriteGateway(c) == [c EXCEPT !.Interface = c.Gateway]

cdCreateWritesBeforeErrorCheck ==
    /\ UNCHANGED notNetVars
    /\ npc = "create"
    /\ nw' = cfg
    /\ created' = created + 1
    /\ createCalls' = createCalls + 1
    /\ cfg' = IF GatewayWritten(cfg.Driver) THEN WriteGateway(cfg) ELSE cfg
    /\ \E ok \in BOOLEAN :
         IF ok
         THEN /\ host' = [exists |-> TRUE, driver |-> cfg.Driver]
              /\ npc' = "update"
              /\ UNCHANGED <<nret, rets>>
         ELSE /\ netReturn("errCreate")
              /\ UNCHANGED host
    /\ UNCHANGED <<conce, client, cli, resource, calls, cfg0, host0, existed,
                   inspected>>

\* createDockerNetwork: nw := config.Get().Docker.Network;
\* _, err := cli.NetworkCreate(ctx, nw.Name, ...); if err != nil { return err }
cdCreate ==
    /\ UNCHANGED notNetVars
    /\ npc = "create"
    /\ nw' = cfg
    /\ created' = created + 1
    /\ createCalls' = createCalls + 1
    /\ \E ok \in BOOLEAN :
         IF ok
         THEN /\ host' = [exists |-> TRUE, driver |-> cfg.Driver]
              /\ npc' = "gateway"
              /\ UNCHANGED <<nret, rets>>
         ELSE /\ netReturn("errCreate")
              /\ UNCHANGED host
    /\ UNCHANGED <<cfg, conce, client, cli, resource, calls, cfg0, host0,
                   existed, inspected>>

\* createDockerNetwork after a successful create: the gateway becomes the
\* advertised interface unless the driver is host, overlay or weavemesh.
cdGateway ==
    /\ UNCHANGED notNetVars
    /\ npc = "gateway"
    /\ cfg' = IF GatewayWritten(nw.Driver) THEN WriteGateway(cfg) ELSE cfg
    /\ npc' = "update"
    /\ UNCHANGED <<host, conce, client, nret, cli, resource, nw, calls, rets,
                   cfg0, host0, existed, inspected, created, createCalls>>

DriverSemanticsNoFallthrough(c, driver) ==
    LET d == [c EXCEPT !.Driver = driver]
    IN IF driver = "host" THEN [d EXCEPT !.Interface = "127.0.0.1", !.ISPN = FALSE]
       ELSE IF driver = "weavemesh" THEN [d EXCEPT !.Interface = "", !.ISPN = TRUE]
       ELSE IF driver = "overlay" THEN d
       ELSE [d EXCEPT !.ISPN = FALSE]
\* c.Docker.Network.Driver = resource.Driver; switch c.Docker.Network.Driver
DriverSemantics(c, driver) ==
    LET d == [c EXCEPT !.Driver = driver]
    IN IF driver = "host" THEN [d EXCEPT !.Interface = "127.0.0.1", !.ISPN = FALSE]
       ELSE IF driver \in {"overlay", "weavemesh"}
            THEN [d EXCEPT !.Interface = "", !.ISPN = TRUE]
       ELSE [d EXCEPT !.ISPN = FALSE]

\* config.Update(func(c *config.Configuration) { ... }); return nil
cdUpdate ==
    /\ UNCHANGED notNetVars
    /\ npc = "update"
    /\ cfg' = DriverSemantics(cfg, resource.Driver)
    /\ netReturn("nil")
    /\ UNCHANGED <<host, conce, client, cli, resource, nw, calls, cfg0, host0,
                   existed, inspected, created, createCalls>>

InitNet ==
    /\ cfg \in [Driver : Drivers, Interface : Interfaces, Gateway : Gateways,
                ISPN : BOOLEAN]
    /\ host \in {NoNetwork} \cup {[exists |-> TRUE, driver |-> d] : d \in Drivers}
    /\ conce = FALSE
    /\ client = "nil"
    /\ npc = "idle"
    /\ nret = "none"
    /\ cli = "nil"
    /\ resource = ZeroResource
    /\ nw = cfg
    /\ calls = 0
    /\ rets = <<>>
    /\ cfg0 = cfg
    /\ host0 = host
    /\ existed = host.exists
    /\ inspected = "none"
    /\ created = 0
    /\ createCalls = 0

\* The network part at rest, for the behaviours of the poller alone.
InitNetIdle ==
    /\ InitNet
    /\ cfg = [Driver |-> "nat", Interface |-> "172.18.0.1", Gateway |-> "172.18.0.1",
              ISPN |-> FALSE]
    /\ host = NoNetwork

NextNet ==
    \/ cdInvoke
    \/ cdDocker
    \/ cdInspect
    \/ cdCreate
    \/ cdGateway
    \/ cdUpdate

(* ------------------------- Docker() singleton ------------------------- *)
Callers == 1..MaxCallers
NoReturn == [client |-> "none", err |-> FALSE]

\* A goroutine calls Docker(): var err error
dockerCall(g) ==
    /\ dpc[g] = "idle"
    /\ dcalls[g] < MaxDockerCalls
    /\ dcalls' = [dcalls EXCEPT ![g] = @ + 1]
    /\ derr' = [derr EXCEPT ![g] = FALSE]
    /\ dpc' = [dpc EXCEPT ![g] = "fast"]
    /\ UNCHANGED <<pollVars, netVars, notOnceExtra, dret, onceM, constructs>>

\* sync.Once.Do: if o.done.Load() == 0 { o.doSlow(f) }
dockerFast(g) ==
    /\ dpc[g] = "fast"
    /\ dpc' = [dpc EXCEPT ![g] = IF conce THEN "return" ELSE "lock"]
    /\ UNCHANGED <<pollVars, netVars, notOnceExtra, derr, dret, onceM, constructs, dcalls>>

dockerLockNoMutex(g) ==
    /\ dpc[g] = "lock"
    /\ dpc' = [dpc EXCEPT ![g] = "slow"]
    /\ UNCHANGED <<pollVars, netVars, notOnceExtra, derr, dret, onceM, constructs, dcalls>>

\* doSlow: o.m.Lock()
dockerLock(g) ==
    /\ dpc[g] = "lock"
    /\ onceM = 0
    /\ onceM' = g
    /\ dpc' = [dpc EXCEPT ![g] = "slow"]
    /\ UNCHANGED <<pollVars, netVars, notOnceExtra, derr, dret, constructs, dcalls>>

\* doSlow: if o.done.Load() == 0 { defer o.done.Store(1); f() }, else unlock
dockerSlow(g) ==
    /\ dpc[g] = "slow"
    /\ IF conce
       THEN /\ onceM' = 0
            /\ dpc' = [dpc EXCEPT ![g] = "return"]
       ELSE /\ dpc' = [dpc EXCEPT ![g] = "construct"]
            /\ UNCHANGED onceM
    /\ UNCHANGED <<pollVars, netVars, notOnceExtra, derr, dret, constructs, dcalls>>

\* _client, err = client.NewClientWithOpts(client.FromEnv, ...)
dockerConstruct(g) ==
    /\ dpc[g] = "construct"
    /\ \E ok \in BOOLEAN :
         /\ client' = IF ok THEN "client" ELSE "nil"
         /\ derr' = [derr EXCEPT ![g] = ~ok]
    /\ constructs' = constructs + 1
    /\ dpc' = [dpc EXCEPT ![g] = "store"]
    /\ UNCHANGED <<pollVars, netRest, notOnceExtra, conce, dret, onceM, dcalls>>

\* the deferred o.done.Store(1) and o.m.Unlock()
dockerStore(g) ==
    /\ dpc[g] = "store"
    /\ conce' = TRUE
    /\ onceM' = 0
    /\ dpc' = [dpc EXCEPT ![g] = "return"]
    /\ UNCHANGED <<pollVars, netRest, notOnceExtra, client, derr, dret, constructs, dcalls>>

\* return _client, errors.Wrap(err, ...): Wrap of a nil error is nil
dockerReturn(g) ==
    /\ dpc[g] = "return"
    /\ dret' = [dret EXCEPT ![g] = [client |-> client, err |-> derr[g]]]
    /\ dpc' = [dpc EXCEPT ![g] = "idle"]
    /\ UNCHANGED <<pollVars, netVars, notOnceExtra, derr, onceM, constructs, dcalls>>

InitOnce ==
    /\ dpc = [g \in Callers |-> "idle"]
    /\ derr = [g \in Callers |-> FALSE]
    /\ dret = [g \in Callers |-> NoReturn]
    /\ onceM = 0
    /\ constructs = 0
    /\ dcalls = [g \in Callers |-> 0]

NextOnce ==
    \/ \E g \in Callers : dockerCall(g)
    \/ \E g \in Callers : dockerFast(g)
    \/ \E g \in Callers : dockerLock(g)
    \/ \E g \in Callers : dockerSlow(g)
    \/ \E g \in Callers : dockerConstruct(g)
    \/ \E g \in Callers : dockerStore(g)
    \/ \E g \in Callers : dockerReturn(g)

(* ----------------------- global configuration ------------------------ *)
Readers == 1..MaxReaders
\* Values an element of AllowedMounts can hold: the configured one and one a
\* caller writes.
MountValues == {"/mnt/a", "/mnt/x"}
ConfiguredMounts == <<"/mnt/a">>
\* One driver for each arm of the callback's switch.
UpdateDrivers == {"host", "overlay", "bridge"}
\* A driver only a caller writes.
CallerDriver == "macvlan"

\* What the stored configuration reads as: *_config with the elements of its
\* slice field.
StoredView == [cfg |-> cfg, mounts |-> backing]

notCfgVars == <<pollVars, netNoCfg, onceVars, diskVars, fsVars, statVars, hcVars, jwtVars>>

\* config.Update: mu.Lock(), for the callback ConfigureDocker passes, which
\* records the driver d of the inspected network.
updLock ==
    /\ upc = "idle"
    /\ updates < MaxUpdates
    /\ ~muW
    /\ muR = {}
    /\ muW' = TRUE
    /\ \E d \in UpdateDrivers : ud' = d
    /\ upc' = "driver"
    /\ UNCHANGED <<notCfgVars, cfg, muR, updates, stable, committed, getVars>>

\* c.Docker.Network.Driver = resource.Driver
updDriver ==
    /\ upc = "driver"
    /\ cfg' = [cfg EXCEPT !.Driver = ud]
    /\ committed' = [committed EXCEPT !.cfg = cfg']
    /\ upc' = IF ud \in {"host", "overlay", "weavemesh"} THEN "interface" ELSE "ispn"
    /\ UNCHANGED <<notCfgVars, muVars, ud, updates, stable, getVars>>

\* c.Docker.Network.Interface = "127.0.0.1" (host) or "" (overlay, weavemesh)
updInterface ==
    /\ upc = "interface"
    /\ cfg' = [cfg EXCEPT !.Interface = DriverSemantics(cfg, ud).Interface]
    /\ committed' = [committed EXCEPT !.cfg = cfg']
    /\ upc' = "ispn"
    /\ UNCHANGED <<notCfgVars, muVars, ud, updates, stable, getVars>>

\* c.Docker.Network.ISPN = ...
updISPN ==
    /\ upc = "ispn"
    /\ cfg' = [cfg EXCEPT !.ISPN = DriverSemantics(cfg, ud).ISPN]
    /\ committed' = [committed EXCEPT !.cfg = cfg']
    /\ upc' = "unlock"
    /\ UNCHANGED <<notCfgVars, muVars, ud, updates, stable, getVars>>

\* config.Update: mu.Unlock()
updUnlock ==
    /\ upc = "unlock"
    /\ muW' = FALSE
    /\ stable' = cfg
    /\ updates' = updates + 1
    /\ upc' = "idle"
    /\ UNCHANGED <<notCfgVars, cfg, muR, ud, committed, getVars>>

getRLockNoWait(r) ==
    /\ gpc[r] = "idle"
    /\ muR' = muR \cup {r}
    /\ gpc' = [gpc EXCEPT ![r] = "copy"]
    /\ UNCHANGED <<notCfgVars, cfg, muW, updVars, snap, backing>>

\* config.Get: mu.RLock()
getRLock(r) ==
    /\ gpc[r] = "idle"
    /\ ~muW
    /\ muR' = muR \cup {r}
    /\ gpc' = [gpc EXCEPT ![r] = "copy"]
    /\ UNCHANGED <<notCfgVars, cfg, muW, updVars, snap, backing>>

\* c := *_config: the struct is copied, a slice field of the copy still
\* points at the backing array of the stored one.
getCopy(r) ==
    /\ gpc[r] = "copy"
    /\ snap' = [snap EXCEPT ![r] =
                  [valid |-> TRUE, got |-> cfg, base |-> stable, cur |-> cfg,
                   alias |-> TRUE]]
    /\ gpc' = [gpc EXCEPT ![r] = "unlock"]
    /\ UNCHANGED <<notCfgVars, cfg, muVars, updVars, backing>>

\* mu.RUnlock(); return &c
getRUnlock(r) ==
    /\ gpc[r] = "unlock"
    /\ muR' = muR \ {r}
    /\ gpc' = [gpc EXCEPT ![r] = "idle"]
    /\ UNCHANGED <<notCfgVars, cfg, muW, updVars, snap, backing>>

\* The caller assigns a field of the struct Get returned.
callerSetField(r) ==
    /\ gpc[r] = "idle"
    /\ snap[r].valid
    /\ snap[r].cur.Driver # CallerDriver
    /\ snap' = [snap EXCEPT ![r].cur.Driver = CallerDriver]
    /\ UNCHANGED <<notCfgVars, cfg, muVars, updVars, gpc, backing>>

\* The caller assigns a new slice to the slice field of the struct.
callerSetSlice(r) ==
    /\ gpc[r] = "idle"
    /\ snap[r].valid
    /\ snap[r].alias
    /\ snap' = [snap EXCEPT ![r].alias = FALSE]
    /\ UNCHANGED <<notCfgVars, cfg, muVars, updVars, gpc, backing>>

\* The caller assigns an element of the slice field of the struct:
\* c.AllowedMounts[0] = m writes the array the slice header points at, the
\* stored one unless the caller gave the field a slice of its own (whose
\* array is the caller's and is not kept here).
callerSetElement(r) ==
    /\ gpc[r] = "idle"
    /\ snap[r].valid
    /\ \E m \in MountValues :
         /\ m # backing[1]
         /\ backing' = IF snap[r].alias THEN [backing EXCEPT ![1] = m] ELSE backing
    /\ UNCHANGED <<notCfgVars, cfg, muVars, updVars, gpc, snap>>

\* The configuration part at rest, with the configuration cfg holds.
InitCfg ==
    /\ muW = FALSE
    /\ muR = {}
    /\ upc = "idle"
    /\ ud = ""
    /\ updates = 0
    /\ stable = cfg
    /\ backing = ConfiguredMounts
    /\ committed = [cfg |-> cfg, mounts |-> ConfiguredMounts]
    /\ gpc = [r \in Readers |-> "idle"]
    /\ snap = [r \in Readers |->
                 [valid |-> FALSE, got |-> cfg, base |-> cfg, cur |-> cfg,
                  alias |-> TRUE]]

NextUpdate ==
    \/ updLock
    \/ updDriver
    \/ updInterface
    \/ updISPN
    \/ updUnlock

NextCfg ==
    \/ NextUpdate
    \/ \E r \in Readers : getRLock(r)
    \/ \E r \in Readers : getCopy(r)
    \/ \E r \in Readers : getRUnlock(r)
    \/ \E r \in Readers : callerSetField(r)
    \/ \E r \in Readers : callerSetSlice(r)
    \/ \E r \in Readers : callerSetElement(r)

(* --------------------------- WriteToDisk ------------------------------ *)
Writers == 1..MaxWriters

\* Configurations handed to WriteToDisk: one without a path, and two whose
\* files differ in length.
WriteConfigs ==
    { [path |-> "", Debug |-> FALSE, Mounts |-> <<>>],
      [path |-> "config.yml", Debug |-> TRUE, Mounts |-> <<>>],
      [path |-> "config.yml", Debug |-> FALSE, Mounts |-> <<"/mnt/a">>] }

\* yaml.Marshal(&ccopy): the lines of the file.
Marshal(cc) ==
    <<IF cc.Debug THEN "debug: true" ELSE "debug: false">> \o cc.Mounts

\* A write of b at offset 0 of a file holding f.
WriteAtStart(f, b) ==
    [i \in 1..(IF Len(f) > Len(b) THEN Len(f) ELSE Len(b)) |->
        IF i <= Len(b) THEN b[i] ELSE f[i]]

notDiskVars == <<pollVars, netVars, onceVars, cfgVars, fsVars, statVars, hcVars, jwtVars>>
notWriteVars == <<notDiskVars, flagVars>>
NoConfig == [path |-> "", Debug |-> FALSE, Mounts |-> <<>>]

\* SetDebugViaFlag(d): mu.Lock()
sdLock ==
    /\ sdpc = "idle"
    /\ ~muW
    /\ muR = {}
    /\ muW' = TRUE
    /\ \E d \in BOOLEAN : sdd' = d
    /\ sdpc' = "debug"
    /\ UNCHANGED <<pollVars, netVars, onceVars, muR, updVars, getVars, fsVars,
                   statVars, hcVars, jwtVars, writeVars, debug, debugViaFlag>>

\* _config.Debug = d
sdDebug ==
    /\ sdpc = "debug"
    /\ debug' = sdd
    /\ sdpc' = "flag"
    /\ UNCHANGED <<notDiskVars, writeVars, sdd, debugViaFlag>>

\* _debugViaFlag = d
sdFlag ==
    /\ sdpc = "flag"
    /\ debugViaFlag' = sdd
    /\ sdpc' = "unlock"
    /\ UNCHANGED <<notDiskVars, writeVars, sdd, debug>>

\* mu.Unlock()
sdUnlock ==
    /\ sdpc = "unlock"
    /\ muW' = FALSE
    /\ sdpc' = "idle"
    /\ UNCHANGED <<pollVars, netVars, onceVars, muR, updVars, getVars, fsVars,
                   statVars, hcVars, jwtVars, writeVars, sdd, debug, debugViaFlag>>

\* The steps of a call between taking _writeLock and releasing it.
WriteSection == {"copy", "path", "open", "write", "unlock"}

\* A goroutine calls WriteToDisk(c).
wCall(w) ==
    /\ wpc[w] = "idle"
    /\ \E c \in WriteConfigs : wc' = [wc EXCEPT ![w] = c]
    /\ wpc' = [wpc EXCEPT ![w] = "lock"]
    /\ wret' = [wret EXCEPT ![w] = "none"]
    /\ wheld' = [wheld EXCEPT ![w] = muW]
    /\ UNCHANGED <<notWriteVars, wlock, wcc, wbuf, file>>

wLockNoMutex(w) ==
    /\ wpc[w] = "lock"
    /\ wlock' = w
    /\ wpc' = [wpc EXCEPT ![w] = "copy"]
    /\ wheld' = [wheld EXCEPT ![w] = @ /\ muW]
    /\ UNCHANGED <<notWriteVars, wc, wcc, wbuf, wret, file>>

\* _writeLock.Lock()
wLock(w) ==
    /\ wpc[w] = "lock"
    /\ wlock = 0
    /\ wlock' = w
    /\ wpc' = [wpc EXCEPT ![w] = "copy"]
    /\ wheld' = [wheld EXCEPT ![w] = @ /\ muW]
    /\ UNCHANGED <<notWriteVars, wc, wcc, wbuf, wret, file>>

\* ccopy := *c; if _debugViaFlag { ccopy.Debug = false }. The flag is read
\* without mu, whatever SetDebugViaFlag is doing.
wCopy(w) ==
    /\ wpc[w] = "copy"
    /\ wcc' = [wcc EXCEPT ![w] =
                 IF debugViaFlag THEN [wc[w] EXCEPT !.Debug = FALSE] ELSE wc[w]]
    /\ wpc' = [wpc EXCEPT ![w] = "path"]
    /\ wheld' = [wheld EXCEPT ![w] = @ /\ muW]
    /\ UNCHANGED <<notWriteVars, wlock, wc, wbuf, wret, file>>

\* if c.path == "" { return error }; b, err := yaml.Marshal(&ccopy)
wPath(w) ==
    /\ wpc[w] = "path"
    /\ IF wc[w].path = ""
       THEN /\ wret' = [wret EXCEPT ![w] = "error"]
            /\ wpc' = [wpc EXCEPT ![w] = "unlock"]
            /\ UNCHANGED wbuf
       ELSE /\ wbuf' = [wbuf EXCEPT ![w] = Marshal(wcc[w])]
            /\ wpc' = [wpc EXCEPT ![w] = "open"]
            /\ UNCHANGED wret
    /\ wheld' = [wheld EXCEPT ![w] = @ /\ muW]
    /\ UNCHANGED <<notWriteVars, wlock, wc, wcc, file>>

\* os.WriteFile opens the file truncating it, or fails to open it.
wOpen(w) ==
    /\ wpc[w] = "open"
    /\ \E opened \in BOOLEAN :
         IF opened
         THEN /\ file' = <<>>
              /\ wpc' = [wpc EXCEPT ![w] = "write"]
              /\ UNCHANGED wret
         ELSE /\ wret' = [wret EXCEPT ![w] = "error"]
              /\ wpc' = [wpc EXCEPT ![w] = "unlock"]
              /\ UNCHANGED file
    /\ wheld' = [wheld EXCEPT ![w] = @ /\ muW]
    /\ UNCHANGED <<notWriteVars, wlock, wc, wcc, wbuf>>

\* os.WriteFile writes b from the start of the file it opened.
wWrite(w) ==
    /\ wpc[w] = "write"
    /\ file' = WriteAtStart(file, wbuf[w])
    /\ wret' = [wret EXCEPT ![w] = "nil"]
    /\ wpc' = [wpc EXCEPT ![w] = "unlock"]
    /\ wheld' = [wheld EXCEPT ![w] = @ /\ muW]
    /\ UNCHANGED <<notWriteVars, wlock, wc, wcc, wbuf>>

\* defer _writeLock.Unlock(); the call's locals are gone when it returns.
wUnlock(w) ==
    /\ wpc[w] = "unlock"
    /\ wlock' = 0
    /\ wpc' = [wpc EXCEPT ![w] = "idle"]
    /\ wc' = [wc EXCEPT ![w] = NoConfig]
    /\ wcc' = [wcc EXCEPT ![w] = NoConfig]
    /\ wbuf' = [wbuf EXCEPT ![w] = <<>>]
    /\ wheld' = [wheld EXCEPT ![w] = FALSE]
    /\ UNCHANGED <<notWriteVars, wret, file>>

\* Whatever step WriteToDisk is at in goroutine w.
wStep(w) ==
    \/ wLock(w)
    \/ wCopy(w)
    \/ wPath(w)
    \/ wOpen(w)
    \/ wWrite(w)
    \/ wUnlock(w)

InitDisk ==
    /\ wlock = 0
    /\ wpc = [w \in Writers |-> "idle"]
    /\ wc = [w \in Writers |-> NoConfig]
    /\ wcc = [w \in Writers |-> NoConfig]
    /\ wbuf = [w \in Writers |-> <<>>]
    /\ wret = [w \in Writers |-> "none"]
    /\ wheld = [w \in Writers |-> FALSE]
    /\ file = <<>>
    /\ sdpc = "idle"
    /\ sdd = FALSE
    /\ debug = FALSE
    /\ debugViaFlag = FALSE

NextDisk ==
    \/ sdLock
    \/ sdDebug
    \/ sdFlag
    \/ sdUnlock
    \/ \E w \in Writers : wCall(w)
    \/ \E w \in Writers : wLock(w)
    \/ \E w \in Writers : wCopy(w)
    \/ \E w \in Writers : wPath(w)
    \/ \E w \in Writers : wOpen(w)
    \/ \E w \in Writers : wWrite(w)
    \/ \E w \in Writers : wUnlock(w)

(* ------------------------ Chown and DirectorySize --------------------- *)
\* The root is entry 0, its entries are 1..MaxEntries, and entry c of the root
\* has one entry of its own, MaxEntries + c.
Entries == 0..(2 * MaxEntries)
TopEntries == 1..MaxEntries
Under(c) == MaxEntries + c

\* A symlink is to a file or to a directory, and resolves inside the root
\* (In) or outside of it (Out).
SymlinkKinds == {"symfileIn", "symfileOut", "symdirIn", "symdirOut"}
SymlinkDirKinds == {"symdirIn", "symdirOut"}
EscapingKinds == {"symfileOut", "symdirOut"}
EntryKinds == {"none", "file", "dir"} \cup SymlinkKinds

\* The trees: a root that is a file, or a directory whose entries are files,
\* symlinks, and directories holding nothing, a file or an escaping symlink.
\* What lies behind a symlinked directory is a file.
Trees ==
    { t \in [Entries -> EntryKinds] :
        /\ t[0] \in {"file", "dir"}
        /\ \A c \in TopEntries :
             /\ t[0] = "file" => t[c] = "none"
             /\ t[c] \in {"none", "file", "symfileIn", "symfileOut"}
                    => t[Under(c)] = "none"
             /\ t[c] = "dir" => t[Under(c)] \in {"none", "file", "symfileOut"}
             /\ t[c] \in SymlinkDirKinds => t[Under(c)] = "file" }

\* The directory entries listing n returns.
DirEntries(n) ==
    IF n = 0 THEN {c \in TopEntries : tree[c] # "none"}
    ELSE IF n \in TopEntries /\ tree[Under(n)] # "none" THEN {Under(n)}
    ELSE {}

Depth(n) == IF n = 0 THEN 0 ELSE IF n \in TopEntries THEN 1 ELSE 2

\* Both walks are depth first: the entries of a directory come before its
\* next sibling.
Deepest(S) == {n \in S : \A k \in S : Depth(k) <= Depth(n)}

\* godirwalk with Unsorted: the entries of a directory in any order.
\* filepath.Walk: in lexical order.
WalkNext(op) ==
    IF op = "sizeOther"
    THEN {n \in Deepest(todo) : \A k \in Deepest(todo) : n <= k}
    ELSE Deepest(todo)

\* The bytes of a file: no two files of a tree are as long.
FileSize(n) == IF n = 0 THEN 1 ELSE 100 * n

\* What Lstat reports as the size of an entry: a symlink has the length of
\* its target path.
LstatSize(n) ==
    CASE tree[n] = "file" -> FileSize(n)
      [] tree[n] \in SymlinkKinds -> 10 + n
      [] OTHER -> 0

\* FileInfo.Size() on the platform of the filepath.Walk build, where a
\* symlink has no size.
InfoSize(n) == IF tree[n] = "file" THEN FileSize(n) ELSE 0

FsOps == {"chown", "sizeLinux", "sizeOther"}

notFsVars == <<pollVars, netVars, onceVars, cfgVars, diskVars, statVars, hcVars, jwtVars>>

fsReturn(r) ==
    /\ fsret' = r
    /\ fspc' = "done"

\* Chown(path) or DirectorySize(dir) is called: SafePath resolves the path or
\* fails (for Chown, so may StringToSid), and the call returns the error.
\* fs.isTest is set by no code of the repository: line 228 does not return.
fsCall ==
    /\ UNCHANGED contrib
    /\ fspc = "idle"
    /\ \E op \in FsOps : \E resolved \in BOOLEAN :
         /\ fsOp' = op
         /\ IF ~resolved
            THEN /\ fsReturn("error")
                 /\ fsFault' = TRUE
                 /\ UNCHANGED todo
            ELSE /\ fspc' = IF op = "chown" THEN "root" ELSE "walk"
                 /\ todo' = IF op = "chown" THEN {} ELSE {0}
                 /\ UNCHANGED <<fsFault, fsret>>
    /\ UNCHANGED <<notFsVars, tree, visited, chowned, chFirst, size, statT>>

\* Chown: SetNamedSecurityInfo(cleaned, ...) on the resolved root.
chRoot ==
    /\ UNCHANGED contrib
    /\ fspc = "root"
    /\ \E ok \in BOOLEAN :
         IF ok
         THEN /\ chowned' = {0}
              /\ chFirst' = 0
              /\ fspc' = "stat"
              /\ UNCHANGED <<fsFault, fsret>>
         ELSE /\ fsReturn("error")
              /\ fsFault' = TRUE
              /\ UNCHANGED <<chowned, chFirst>>
    /\ UNCHANGED <<notFsVars, tree, fsOp, todo, visited, size, statT>>

\* Chown: if statT, err := os.Stat(cleaned); err != nil || !st.IsDir() { return nil }
chStat ==
    /\ UNCHANGED contrib
    /\ fspc = "stat"
    /\ \E ok \in BOOLEAN :
         IF ok /\ tree[0] = "dir"
         THEN /\ fspc' = "walk"
              /\ todo' = {0}
              /\ UNCHANGED <<fsFault, fsret>>
         ELSE /\ fsReturn("nil")
              /\ fsFault' = (fsFault \/ ~ok)
              /\ UNCHANGED todo
    /\ UNCHANGED <<notFsVars, tree, fsOp, visited, chowned, chFirst, size, statT>>

ChownAppliesToAll(kind) == TRUE

\* The callback of Chown applies ownership unless e.IsSymlink().
ChownApplies(kind) == kind \notin SymlinkKinds

\* godirwalk and filepath.Walk list an entry after its callback only when it
\* is a directory itself, never when it is a symlink to one.
Descends(n) == IF tree[n] = "dir" THEN DirEntries(n) ELSE {}

\* Chown: the callback of the walk runs for an entry.
chVisit ==
    /\ UNCHANGED contrib
    /\ fspc = "walk"
    /\ fsOp = "chown"
    /\ \E n \in WalkNext(fsOp) :
         /\ visited' = visited \cup {n}
         /\ IF ChownApplies(tree[n])
            THEN \E ok \in BOOLEAN :
                   IF ok
                   THEN /\ chowned' = chowned \cup {n}
                        /\ todo' = (todo \ {n}) \cup Descends(n)
                        /\ UNCHANGED <<fspc, fsFault, fsret>>
                   ELSE /\ fsReturn("error")
                        /\ fsFault' = TRUE
                        /\ UNCHANGED <<chowned, todo>>
            ELSE /\ todo' = todo \ {n}
                 /\ UNCHANGED <<chowned, fspc, fsFault, fsret>>
    /\ UNCHANGED <<notFsVars, tree, fsOp, chFirst, size, statT>>

LinuxCountsEveryFile(kind) == kind # "dir"

\* The callback of the godirwalk DirectorySize reaches its Lstat for an entry
\* that is no directory, unless it is a symlink SafePath says escapes the root.
LinuxCounts(kind) == kind # "dir" /\ kind \notin EscapingKinds

\* DirectorySize, godirwalk build: the callback runs for an entry. SafePath
\* of a symlink resolves, or fails because it escapes (SkipThis), or fails
\* otherwise (the walk fails). Lstat writes the shared st or fails, its error
\* dropped, and st.Size is added either way.
szVisitLinux ==
    /\ fspc = "walk"
    /\ fsOp = "sizeLinux"
    /\ \E n \in WalkNext(fsOp) : \E resolved, lstated \in BOOLEAN :
         /\ visited' = visited \cup {n}
         /\ IF tree[n] \in SymlinkKinds /\ ~resolved
            THEN /\ fsReturn("error")
                 /\ fsFault' = TRUE
                 /\ UNCHANGED <<todo, size, statT, contrib>>
            ELSE /\ todo' = (todo \ {n}) \cup Descends(n)
                 /\ IF LinuxCounts(tree[n])
                    THEN /\ statT' = IF lstated THEN LstatSize(n) ELSE statT
                         /\ size' = size + statT'
                         /\ contrib' = [contrib EXCEPT ![n] = statT']
                         /\ fsFault' = (fsFault \/ ~lstated)
                    ELSE UNCHANGED <<size, statT, fsFault, contrib>>
                 /\ UNCHANGED <<fspc, fsret>>
    /\ UNCHANGED <<notFsVars, tree, fsOp, chowned, chFirst>>

\* DirectorySize, filepath.Walk build: the callback runs for an entry, with
\* the error of its Lstat if that failed.
szVisitOther ==
    /\ fspc = "walk"
    /\ fsOp = "sizeOther"
    /\ \E n \in WalkNext(fsOp) : \E lstated \in BOOLEAN :
         /\ visited' = visited \cup {n}
         /\ IF ~lstated
            THEN /\ fsReturn("error")
                 /\ fsFault' = TRUE
                 /\ UNCHANGED <<todo, size, contrib>>
            ELSE /\ todo' = (todo \ {n}) \cup Descends(n)
                 /\ size' = IF tree[n] # "dir" THEN size + InfoSize(n) ELSE size
                 /\ contrib' = IF tree[n] # "dir"
                               THEN [contrib EXCEPT ![n] = InfoSize(n)] ELSE contrib
                 /\ UNCHANGED <<fspc, fsFault, fsret>>
    /\ UNCHANGED <<notFsVars, tree, fsOp, chowned, chFirst, statT>>

\* The walk has run out of entries: the operation returns.
fsWalkDone ==
    /\ UNCHANGED contrib
    /\ fspc = "walk"
    /\ todo = {}
    /\ fsReturn("nil")
    /\ UNCHANGED <<notFsVars, tree, fsOp, todo, visited, chowned, chFirst,
                   size, statT, fsFault>>

FsIdle ==
    /\ fsOp = "none"
    /\ fspc = "idle"
    /\ todo = {}
    /\ visited = {}
    /\ chowned = {}
    /\ chFirst = -1
    /\ size = 0
    /\ statT = 0
    /\ contrib = [n \in Entries |-> -1]
    /\ fsFault = FALSE
    /\ fsret = "none"

\* No filesystem call: an empty root.
InitFsIdle ==
    /\ tree = [n \in Entries |-> IF n = 0 THEN "dir" ELSE "none"]
    /\ FsIdle

InitFs ==
    /\ tree \in Trees
    /\ FsIdle

NextFs ==
    \/ fsCall
    \/ chRoot
    \/ chStat
    \/ chVisit
    \/ szVisitLinux
    \/ szVisitOther
    \/ fsWalkDone

(* ---------------------- statistics normalisation --------------------- *)
RECURSIVE Pow2(_)
Pow2(n) == IF n = 0 THEN 1 ELSE 2 * Pow2(n - 1)

Modulus == Pow2(WordBits)

\* uint64(x): x modulo the word.
Unsigned(x) == x % Modulus

RECURSIVE BitLen(_)
BitLen(x) == IF x = 0 THEN 0 ELSE 1 + BitLen(x \div 2)

\* float64(x) of an unsigned x: x kept to MantissaBits significant bits,
\* rounded to nearest, ties to even.
Float(x) ==
    IF BitLen(x) <= MantissaBits THEN x
    ELSE LET unit == Pow2(BitLen(x) - MantissaBits)
             q == x \div unit
             r == x % unit
         IN IF 2 * r > unit \/ (2 * r = unit /\ q % 2 = 1)
            THEN (q + 1) * unit
            ELSE q * unit

\* math.Round of a non-negative quotient.
RoundDiv(a, b) == (2 * a + b) \div (2 * b)

CounterValues == (0..MaxCounter) \cup ((Modulus - 1 - MaxCounter)..(Modulus - 1))
CpuCounts == 0..MaxCpus
\* Nanoseconds between PreRead and Read, Read being the earlier when negative.
ElapsedValues == {50 * k : k \in (-2 * MaxIntervals)..(2 * MaxIntervals)}
\* A counter of MemoryStats.Stats, -1 when the key is absent.
StatsValues == -1..MaxUsage

notStatVars == <<pollVars, netVars, onceVars, cfgVars, diskVars, fsVars, hcVars,
                 jwtVars>>

calculateDockerMemoryInactiveFirst(stats) ==
    IF stats.inactive_file >= 0 /\ stats.inactive_file < stats.Usage
        THEN stats.Usage - stats.inactive_file
    ELSE IF stats.total_inactive_file >= 0 /\ stats.total_inactive_file < stats.Usage
        THEN stats.Usage - stats.total_inactive_file
    ELSE stats.Usage

\* calculateDockerMemory of the cgroup build. A key that is absent reads as 0
\* in the second test.
calculateDockerMemory(stats) ==
    LET inactive == IF stats.inactive_file < 0 THEN 0 ELSE stats.inactive_file
    IN IF stats.total_inactive_file >= 0 /\ stats.total_inactive_file < stats.Usage
           THEN stats.Usage - stats.total_inactive_file
       ELSE IF inactive < stats.Usage
           THEN stats.Usage - inactive
       ELSE stats.Usage

WrappedDelta(cur, prev) == Float(Unsigned(cur - prev))

\* float64(cur) - float64(prev)
FloatDelta(cur, prev) == Float(cur) - Float(prev)

\* calculateDockerAbsoluteCpu of the cgroup build, in thousandths of a percent.
calculateDockerAbsoluteCpuLinux(sj) ==
    LET cpuDelta == FloatDelta(sj.TotalUsage, sj.PreTotalUsage)
        systemDelta == FloatDelta(sj.SystemUsage, sj.PreSystemUsage)
        cpus == IF sj.OnlineCPUs = 0 THEN sj.PercpuUsage ELSE sj.OnlineCPUs
    IN IF systemDelta > 0 /\ cpuDelta > 0
       THEN [num |-> RoundDiv(cpuDelta * cpus * 100000, systemDelta), den |-> 1000]
       ELSE [num |-> 0, den |-> 1000]

\* calculateDockerAbsoluteCpu of the other build: the percentage as the
\* fraction float64(intervalsUsed) * 100 / float64(possIntervals).
calculateDockerAbsoluteCpuWindows(sj) ==
    LET possIntervals == Unsigned((Unsigned(sj.Elapsed) \div 100) * sj.NumProcs)
        intervalsUsed == Unsigned(sj.TotalUsage - sj.PreTotalUsage)
    IN IF possIntervals > 0
       THEN [num |-> Float(intervalsUsed) * 100, den |-> Float(possIntervals)]
       ELSE [num |-> 0, den |-> 1]

\* A reading's memory statistics are normalised (cgroup build).
memoryLinux ==
    /\ statFn = "none"
    /\ \E u \in 0..MaxUsage : \E t, i \in StatsValues :
         /\ statIn' = [Usage |-> u, total_inactive_file |-> t, inactive_file |-> i]
         /\ statOut' = [num |-> calculateDockerMemory(statIn'), den |-> 1]
    /\ statFn' = "memoryLinux"
    /\ UNCHANGED notStatVars

\* A reading's CPU statistics are normalised (cgroup build).
cpuLinux ==
    /\ statFn = "none"
    /\ \E c, p, sc, sp \in CounterValues : \E on, per \in CpuCounts :
         /\ statIn' = [TotalUsage |-> c, PreTotalUsage |-> p, SystemUsage |-> sc,
                       PreSystemUsage |-> sp, OnlineCPUs |-> on, PercpuUsage |-> per]
         /\ statOut' = calculateDockerAbsoluteCpuLinux(statIn')
    /\ statFn' = "cpuLinux"
    /\ UNCHANGED notStatVars

\* A reading's CPU statistics are normalised (other build).
cpuWindows ==
    /\ statFn = "none"
    /\ \E c, p \in CounterValues : \E e \in ElapsedValues : \E n \in CpuCounts :
         /\ statIn' = [TotalUsage |-> c, PreTotalUsage |-> p, Elapsed |-> e,
                       NumProcs |-> n]
         /\ statOut' = calculateDockerAbsoluteCpuWindows(statIn')
    /\ statFn' = "cpuWindows"
    /\ UNCHANGED notStatVars

InitStat ==
    /\ statFn = "none"
    /\ statIn = [Usage |-> 0]
    /\ statOut = [num |-> 0, den |-> 1]

NextStat ==
    \/ memoryLinux
    \/ cpuLinux
    \/ cpuWindows

(* ------------------------- container settings ------------------------ *)
notHcVars == <<pollVars, netVars, onceVars, cfgVars, diskVars, fsVars, statVars,
               jwtVars>>

\* CPUPeriod: 100_000
CPUPeriod == 100000
\* CPUShares: 1024
CPUShares == 1024
\* l.MemoryLimit * 1_000_000
MegaByte == 1000000

\* The limits of a server: memory and swap in MB, CPU in percent of a core.
MemoryLimits == {0, 512, 1024}
SwapLimits == {-1, 0, 256}
CpuLimits == {0, 50, 150}
IoWeights == {10, 500}
ThreadSets == {"", "0-1"}
PidLimits == {0, 512}
LimitsValues ==
    [MemoryLimit : MemoryLimits, Swap : SwapLimits, CpuLimit : CpuLimits,
     IoWeight : IoWeights, OOMDisabled : BOOLEAN, Threads : ThreadSets,
     PidLimit : PidLimits]
NoLimits ==
    [MemoryLimit |-> 0, Swap |-> 0, CpuLimit |-> 0, IoWeight |-> 0,
     OOMDisabled |-> FALSE, Threads |-> "", PidLimit |-> 0]

\* A pointer field of container.Resources: nil, or the address of a value.
NilBool == [set |-> FALSE, val |-> FALSE]
NilInt == [set |-> FALSE, val |-> 0]
AddressOf(x) == [set |-> TRUE, val |-> x]
\* container.Resources{}: every field the literal leaves out.
ZeroResources ==
    [Memory |-> 0, MemoryReservation |-> 0, MemorySwap |-> 0, CPUQuota |-> 0,
     CPUPeriod |-> 0, CPUShares |-> 0, BlkioWeight |-> 0,
     OomKillDisable |-> NilBool, CpusetCpus |-> "", PidsLimit |-> NilInt]

\* memory bytes = MB x 1,000,000
BoundedMemoryLimit(l) == l.MemoryLimit * 1000000
\* memory + swap MB x 1,000,000 when swap >= 0, the unlimited sentinel when
\* swap < 0
ConvertedSwap(l) ==
    IF l.Swap < 0 THEN -1 ELSE BoundedMemoryLimit(l) + l.Swap * 1000000
\* (CPU percent / 100) x the period of 100,000
ConvertedCpuLimit(l) == (l.CpuLimit * 100000) \div 100
\* the process limit, passed through
ProcessLimit(l) == l.PidLimit

AsContainerResourcesLinuxHalfPeriod(l) ==
    [Memory |-> BoundedMemoryLimit(l),
     MemoryReservation |-> l.MemoryLimit * MegaByte,
     MemorySwap |-> ConvertedSwap(l),
     CPUQuota |-> ConvertedCpuLimit(l),
     CPUPeriod |-> 50000,
     CPUShares |-> CPUShares,
     BlkioWeight |-> l.IoWeight,
     OomKillDisable |-> AddressOf(l.OOMDisabled),
     CpusetCpus |-> l.Threads,
     PidsLimit |-> AddressOf(ProcessLimit(l))]
\* Limits.AsContainerResources of the cgroup build
AsContainerResourcesLinux(l) ==
    [Memory |-> BoundedMemoryLimit(l),
     MemoryReservation |-> l.MemoryLimit * MegaByte,
     MemorySwap |-> ConvertedSwap(l),
     CPUQuota |-> ConvertedCpuLimit(l),
     CPUPeriod |-> CPUPeriod,
     CPUShares |-> CPUShares,
     BlkioWeight |-> l.IoWeight,
     OomKillDisable |-> AddressOf(l.OOMDisabled),
     CpusetCpus |-> l.Threads,
     PidsLimit |-> AddressOf(ProcessLimit(l))]

\* Environment.resources of the cgroup build
resourcesLinux(l) ==
    [Memory |-> BoundedMemoryLimit(l),
     MemoryReservation |-> l.MemoryLimit * MegaByte,
     MemorySwap |-> ConvertedSwap(l),
     CPUQuota |-> ConvertedCpuLimit(l),
     CPUPeriod |-> CPUPeriod,
     CPUShares |-> CPUShares,
     BlkioWeight |-> l.IoWeight,
     OomKillDisable |-> AddressOf(l.OOMDisabled),
     CpusetCpus |-> l.Threads,
     PidsLimit |-> AddressOf(ProcessLimit(l))]

AsContainerResourcesWindowsWithPids(l) ==
    [ZeroResources EXCEPT !.Memory = BoundedMemoryLimit(l),
                          !.CPUQuota = ConvertedCpuLimit(l),
                          !.CPUShares = CPUShares,
                          !.CpusetCpus = l.Threads,
                          !.PidsLimit = AddressOf(ProcessLimit(l))]
\* Limits.AsContainerResources of the other build
AsContainerResourcesWindows(l) ==
    [ZeroResources EXCEPT !.Memory = BoundedMemoryLimit(l),
                          !.CPUQuota = ConvertedCpuLimit(l),
                          !.CPUShares = CPUShares,
                          !.CpusetCpus = l.Threads]

\* Environment.resources of the other build
resourcesWindows(l) ==
    [ZeroResources EXCEPT !.Memory = BoundedMemoryLimit(l),
                          !.CPUQuota = ConvertedCpuLimit(l),
                          !.CPUShares = CPUShares,
                          !.CpusetCpus = l.Threads]

\* nat.PortMap: container port -> the host bindings of that port, in order.
ContainerPorts == {"25565/tcp", "25565/udp"}
HostIPs == {"0.0.0.0", "10.0.0.5"}
HostPorts == {"25565", "25566"}
PortBindings == [HostIP : HostIPs, HostPort : HostPorts]
BindingLists == UNION {[1..k -> PortBindings] : k \in 0..MaxBindings}
PortMaps == UNION {[D -> BindingLists] : D \in SUBSET ContainerPorts}
EmptyPortMap == [p \in {} |-> <<>>]

getDockerBindingsKeepIP(portBindings) == portBindings
\* for p, binds := range portBindings { for i, alloc := range binds {
\*     portBindings[p][i] = nat.PortBinding{HostIP: "", HostPort: alloc.HostPort} } }
getDockerBindingsForWindows(portBindings) ==
    [p \in DOMAIN portBindings |->
        [i \in 1..Len(portBindings[p]) |->
            [HostIP |-> "", HostPort |-> portBindings[p][i].HostPort]]]

\* Resources: e.Configuration.Limits().AsContainerResources(), cgroup build
callLimitsLinux ==
    /\ hcFn = "none"
    /\ hcFn' = "limitsLinux"
    /\ \E l \in LimitsValues :
         /\ limIn' = l
         /\ limOut' = AsContainerResourcesLinux(l)
    /\ UNCHANGED <<notHcVars, bindIn, bindOut>>

\* e.resources(), cgroup build
callResourcesLinux ==
    /\ hcFn = "none"
    /\ hcFn' = "resourcesLinux"
    /\ \E l \in LimitsValues :
         /\ limIn' = l
         /\ limOut' = resourcesLinux(l)
    /\ UNCHANGED <<notHcVars, bindIn, bindOut>>

\* Resources: e.Configuration.Limits().AsContainerResources(), other build
callLimitsWindows ==
    /\ hcFn = "none"
    /\ hcFn' = "limitsWindows"
    /\ \E l \in LimitsValues :
         /\ limIn' = l
         /\ limOut' = AsContainerResourcesWindows(l)
    /\ UNCHANGED <<notHcVars, bindIn, bindOut>>

\* e.resources(), other build
callResourcesWindows ==
    /\ hcFn = "none"
    /\ hcFn' = "resourcesWindows"
    /\ \E l \in LimitsValues :
         /\ limIn' = l
         /\ limOut' = resourcesWindows(l)
    /\ UNCHANGED <<notHcVars, bindIn, bindOut>>

\* PortBindings: a.DockerBindings(), cgroup build
callBindingsLinux ==
    /\ hcFn = "none"
    /\ hcFn' = "bindingsLinux"
    /\ \E pb \in PortMaps :
         /\ bindIn' = pb
         /\ bindOut' = pb
    /\ UNCHANGED <<notHcVars, limIn, limOut>>

\* PortBindings: getDockerBindingsForWindows(a), other build
callBindingsWindows ==
    /\ hcFn = "none"
    /\ hcFn' = "bindingsWindows"
    /\ \E pb \in PortMaps :
         /\ bindIn' = pb
         /\ bindOut' = getDockerBindingsForWindows(pb)
    /\ UNCHANGED <<notHcVars, limIn, limOut>>

InitHc ==
    /\ hcFn = "none"
    /\ limIn = NoLimits
    /\ limOut = ZeroResources
    /\ bindIn = EmptyPortMap
    /\ bindOut = EmptyPortMap

NextHc ==
    \/ callLimitsLinux
    \/ callResourcesLinux
    \/ callLimitsWindows
    \/ callResourcesWindows
    \/ callBindingsLinux
    \/ callBindingsWindows

(* ------------------ configuration and JWT algorithm ------------------ *)
notJwtVars == <<pollVars, netVars, onceVars, cfgVars, diskVars, fsVars, statVars,
                hcVars>>

Tokens == {"", "t1", "t2"}
\* _config == nil
NilConfig == [set |-> FALSE, AuthenticationToken |-> "", Debug |-> FALSE]
\* _jwtAlgo == nil
NilAlgo == [alg |-> "nil", key |-> ""]
\* jwt.NewHS256([]byte(token))
NewHS256(key) == [alg |-> "HS256", key |-> key]
NoAlgoReturned == [valid |-> FALSE, algo |-> NilAlgo, token |-> ""]

\* Set(c): under mu.Lock(), _jwtAlgo is rebuilt when there is no stored
\* configuration or its token differs from c's; then _config = c.
Set ==
    /\ \E t \in Tokens : \E d \in BOOLEAN :
         /\ jwtAlgo' = IF ~storedConfig.set \/ storedConfig.AuthenticationToken # t
                       THEN NewHS256(t) ELSE jwtAlgo
         /\ storedConfig' = [set |-> TRUE, AuthenticationToken |-> t, Debug |-> d]
    /\ UNCHANGED <<notJwtVars, jwtViaFlag, jwtGot>>

\* Update(callback): callback(_config) under mu.Lock(), for a callback that
\* writes the token or the debug flag.
Update ==
    /\ storedConfig.set
    /\ \/ \E t \in Tokens :
            storedConfig' = [storedConfig EXCEPT !.AuthenticationToken = t]
       \/ \E d \in BOOLEAN : storedConfig' = [storedConfig EXCEPT !.Debug = d]
    /\ UNCHANGED <<notJwtVars, jwtAlgo, jwtViaFlag, jwtGot>>

\* SetDebugViaFlag(d): _config.Debug = d; _debugViaFlag = d
SetDebugViaFlag ==
    /\ storedConfig.set
    /\ \E d \in BOOLEAN :
         /\ storedConfig' = [storedConfig EXCEPT !.Debug = d]
         /\ jwtViaFlag' = d
    /\ UNCHANGED <<notJwtVars, jwtAlgo, jwtGot>>

\* GetJwtAlgorithm(): return _jwtAlgo, under mu.RLock()
GetJwtAlgorithm ==
    /\ jwtGot' = [valid |-> TRUE, algo |-> jwtAlgo,
                  token |-> storedConfig.AuthenticationToken]
    /\ UNCHANGED <<notJwtVars, storedConfig, jwtAlgo, jwtViaFlag>>

InitJwt ==
    /\ storedConfig = NilConfig
    /\ jwtAlgo = NilAlgo
    /\ jwtViaFlag = FALSE
    /\ jwtGot = NoAlgoReturned

NextJwt ==
    \/ Set
    \/ Update
    \/ SetDebugViaFlag
    \/ GetJwtAlgorithm

(* --------------------------- specifications --------------------------- *)
\* One environment's poller against its lifecycle driver and context owner.
\* The parts a specification does not exercise, at rest.
IdleExtra ==
    InitOnce /\ InitCfg /\ InitDisk /\ InitFsIdle /\ InitStat /\ InitHc /\ InitJwt

PollInit == InitPoll /\ InitNetIdle /\ IdleExtra
SpecPoll == PollInit /\ [][NextPoll]_vars

\* Successive ConfigureDocker calls against the container runtime.
NetInit == InitPoll /\ InitNet /\ IdleExtra
SpecNet == NetInit /\ [][NextNet]_vars

\* Goroutines calling Docker() concurrently.
OnceInit == InitPoll /\ InitNetIdle /\ IdleExtra
SpecOnce == OnceInit /\ [][NextOnce]_vars

\* Goroutines reading the configuration while one updates it.
CfgInit == InitPoll /\ InitNetIdle /\ IdleExtra
SpecCfg == CfgInit /\ [][NextCfg]_vars

\* Goroutines saving the configuration while one sets the debug flag.
DiskInit == InitPoll /\ InitNetIdle /\ IdleExtra
SpecDisk == DiskInit /\ [][NextDisk]_vars

\* One Chown or DirectorySize call on a tree.
FsInit ==
    /\ InitPoll /\ InitNetIdle /\ InitOnce /\ InitCfg /\ InitDisk /\ InitFs
    /\ InitStat /\ InitHc /\ InitJwt
SpecFs == FsInit /\ [][NextFs]_vars

\* Readings handed to the normalisation functions of both builds.
StatInit == InitPoll /\ InitNetIdle /\ IdleExtra
SpecStat == StatInit /\ [][NextStat]_vars

\* The settings functions of container creation, one call each.
HcInit == InitPoll /\ InitNetIdle /\ IdleExtra
SpecHc == HcInit /\ [][NextHc]_vars

\* Calls of Set, Update, SetDebugViaFlag and GetJwtAlgorithm in any order.
JwtInit == InitPoll /\ InitNetIdle /\ IdleExtra
SpecJwt == JwtInit /\ [][NextJwt]_vars

Init ==
    /\ InitPoll /\ InitNet /\ InitOnce /\ InitCfg /\ InitDisk /\ InitFs
    /\ InitStat /\ InitHc /\ InitJwt
Next ==
    \/ NextPoll \/ NextNet \/ NextOnce \/ NextCfg \/ NextDisk \/ NextFs
    \/ NextStat \/ NextHc \/ NextJwt
Spec == Init /\ [][Next]_vars

(* ------------------------ statistics poller claims -------------------- *)
\* C1 (as claimed): no sample is ever published at a moment when the
\* environment's state is Offline. The state is loaded after the decode and
\* the event is published later, so the lifecycle driver can store Offline in
\* between.
C1_NoSampleWhileOffline ==
    \A i \in 1..Len(published) : ~published[i].offline

\* C2 (as claimed): once the state became Offline while the poller streams,
\* and for as long as it stays Offline, no further sample is published, and
\* after the next successful decode (and its state check) the poller has
\* returned nil.
C2_StopsWithinOneDecode ==
    offlineMark # NoMark =>
        /\ Len(published) = offlineMark.pub
        /\ (Len(received) > offlineMark.recv /\ pc # "check")
               => (pc = "done" /\ ret = "nil")

\* C3: pollResources invoked while the state is Offline returns its error at
\* once: no ContainerStats call, no Uptime call, no stream opened and no
\* event published.
C3_OfflineFailsImmediately ==
    entrySt = ProcessOfflineState =>
        /\ pc = "done"
        /\ ret = "errStopped"
        /\ statsCalls = 0
        /\ uptimeCalls = 0
        /\ ~bodyOpen
        /\ closes = 0
        /\ published = <<>>

C3_Witness ==
    /\ entrySt = ProcessOfflineState
    /\ pc = "done"
    /\ ret = "errStopped"

\* C4 (as claimed): a cancellation observed at the top of the loop or as the
\* error of the decode in progress makes pollResources return the context's
\* cancellation error.
C4_CancelReturnsCtxErr ==
    (pc = "done" /\ (exitAt = "ctxDone" \/ decodeErr = "canceled"))
        => ret = "ctxErr"

\* C4 (amended): after a cancellation the poller stops, finishing at most
\* the decode already in progress; observed at the top of the loop the return
\* value is the context's cancellation error, observed as the error of the
\* decode in progress the return value is nil.
C4_CancelStopsPoller ==
    /\ exitAt = "ctxDone" => (ctxDone /\ pc = "done" /\ ret = "ctxErr")
    /\ decodeErr = "canceled" => (ctxDone /\ pc = "done" /\ ret = "nil")
    /\ ctxDone =>
         /\ Len(received) <= cancelMark.recv + 1
         /\ Len(published) <= cancelMark.pub + 1
         /\ pc = "decode" => Len(received) = cancelMark.recv

C4_Witness ==
    /\ pc = "done"
    /\ decodeErr = "canceled"
    /\ ret = "nil"
    /\ Len(published) >= 1

\* C5: every decode failure ends the loop with a nil return; only an error
\* other than end-of-stream and cancellation is logged as a warning; nothing
\* is published for the failed decode, so the events are exactly those of
\* the samples decoded before it.
C5_DecodeFailureStopsCleanly ==
    decodeErr # "none" =>
        /\ pc = "done"
        /\ ret = "nil"
        /\ exitAt = "decode"
        /\ lastLog = (IF decodeErr = "other" THEN "warn" ELSE "debug")
        /\ Len(published) = Len(received)

C5_Witness ==
    /\ decodeErr = "other"
    /\ pc = "done"
    /\ ret = "nil"
    /\ Len(published) >= 1

\* C6: the events published are the samples received, in stream order, each
\* at most once, and a sample is published before the next one is decoded.
C6_PublishedInStreamOrder ==
    /\ Len(published) <= Len(received)
    /\ Len(received) <= Len(published) + 1
    /\ \A i \in 1..Len(received) : received[i].seq = i
    /\ \A i \in 1..Len(published) : published[i].seq = received[i].seq
    /\ pc \in {"select", "decode"} => Len(published) = Len(received)

C6_Witness ==
    /\ Len(published) >= 2
    /\ pc = "decode"

(* ------------------------ network bootstrap claims -------------------- *)
\* C7: NetworkCreate is called only after NetworkInspect answered not-found,
\* at most once per call and never when the network existed; two successive
\* successful calls on a host without the network make exactly one create
\* call between them.
C7_CreateOnlyWhenNotFound ==
    /\ created <= 1
    /\ created > 0 => (inspected = "notfound" /\ ~existed)
    /\ (Len(rets) >= 2 /\ rets[1] = "nil" /\ rets[2] = "nil" /\ ~host0.exists)
           => createCalls = 1

C7_Witness ==
    /\ Len(rets) >= 2
    /\ rets[1] = "nil"
    /\ rets[2] = "nil"
    /\ ~host0.exists
    /\ createCalls = 1
    /\ npc = "done"

\* C8: an inspect error other than not-found is returned with no create
\* attempted, a create error is returned, and a call that returns an error
\* leaves the configuration as it found it.
C8_FailureLeavesConfig ==
    /\ inspected = "error" =>
         (npc = "done" /\ nret = "errInspect" /\ created = 0)
    /\ (created = 1 /\ ~host.exists) => (npc = "done" /\ nret = "errCreate")
    /\ nret \in {"errClient", "errInspect", "errCreate"} => cfg = cfg0

C8_Witness ==
    /\ nret = "errCreate"
    /\ cfg0.Driver = "nat"
    /\ cfg0.Interface # cfg0.Gateway

\* C9: a call that found the network records the inspected driver: host
\* gives interface 127.0.0.1 and ISPN false, overlay and weavemesh give an
\* empty interface and ISPN true, any other driver gives ISPN false and
\* leaves the interface as it was.
C9_FoundDerivesSemantics ==
    (npc = "done" /\ nret = "nil" /\ inspected = "found") =>
        /\ cfg.Driver = host.driver
        /\ cfg.Gateway = cfg0.Gateway
        /\ host.driver = "host" => (cfg.Interface = "127.0.0.1" /\ ~cfg.ISPN)
        /\ host.driver \in {"overlay", "weavemesh"} =>
             (cfg.Interface = "" /\ cfg.ISPN)
        /\ host.driver \notin {"host", "overlay", "weavemesh"} =>
             (cfg.Interface = cfg0.Interface /\ ~cfg.ISPN)

C9_Witness ==
    /\ npc = "done"
    /\ nret = "nil"
    /\ inspected = "found"
    /\ host.driver = "overlay"
    /\ ~cfg0.ISPN
    /\ cfg.ISPN

\* C10: a call that created the network with a driver other than host,
\* overlay and weavemesh returns with the interface equal to the configured
\* v4 gateway; with one of those three drivers the interface is not written.
C10_CreatedGatewayAdvertised ==
    (npc = "done" /\ nret = "nil" /\ created = 1) =>
        /\ cfg0.Driver \notin {"host", "overlay", "weavemesh"} =>
             cfg.Interface = cfg0.Gateway
        /\ cfg0.Driver \in {"host", "overlay", "weavemesh"} =>
             cfg.Interface = cfg0.Interface

C10_Witness ==
    /\ npc = "done"
    /\ nret = "nil"
    /\ created = 1
    /\ cfg0.Driver = "nat"
    /\ cfg0.Interface # cfg0.Gateway
    /\ cfg.Interface = cfg0.Gateway

(* ------------------------ Docker() singleton claims ------------------- *)
\* C11: over sequential and concurrent Docker() calls the client constructor
\* runs at most once, it has run exactly once before any call returns, every
\* call returns the result of that one run, and a failed run is not retried.
C11_ConstructedOnce ==
    /\ constructs <= 1
    /\ \A g \in Callers :
         /\ dpc[g] = "return" => (constructs = 1 /\ conce)
         /\ dret[g] # NoReturn => (constructs = 1 /\ dret[g].client = client)

C11_Witness ==
    /\ \A g \in Callers : dret[g] # NoReturn /\ dpc[g] = "idle"
    /\ \E g \in Callers : dcalls[g] = 2
    /\ client = "nil"
    /\ constructs = 1

(* ---------------------- global configuration claims ------------------- *)
\* C12 (as claimed): nothing a caller does through the struct Get returned,
\* its slice fields included, changes the stored configuration: it always
\* reads as what Update last wrote.
C12_GetReturnsIsolatedCopy ==
    StoredView = committed

\* C13: the struct Get returns holds the configuration as it was between
\* two Update calls: none or all of the field writes of each callback.
C13_NoPartialUpdateSeen ==
    \A r \in Readers : snap[r].valid => snap[r].got = snap[r].base

C13_Witness ==
    \E r \in Readers :
        /\ snap[r].valid
        /\ upc = "ispn"
        /\ cfg.Driver = "overlay"
        /\ snap[r].got.Driver = "host"
        /\ snap[r].got.Interface = "127.0.0.1"

\* C14: at most one WriteToDisk call is between taking and releasing
\* _writeLock, a call that has written finds the file holding exactly its own
\* bytes, and no step of a call waits for mu: only the first, and only for
\* _writeLock.
C14_WritesSerialized ==
    /\ Cardinality({w \in Writers : wpc[w] \in WriteSection}) <= 1
    /\ \A w \in Writers :
         /\ (wpc[w] = "unlock" /\ wret[w] = "nil") => file = wbuf[w]
         /\ wpc[w] \in WriteSection => (wlock = w /\ ENABLED wStep(w))
         /\ (wpc[w] = "lock" /\ wlock = 0) => ENABLED wStep(w)

C14_Witness ==
    \E w, x \in Writers :
        /\ wpc[w] = "unlock"
        /\ wret[w] = "nil"
        /\ wheld[w]
        /\ muW
        /\ Len(file) = 2
        /\ wpc[x] = "lock"
        /\ wret[x] = "none"

(* -------------------------- filesystem claims ------------------------- *)
\* An entry that is under the root through directories only.
InJail(n) ==
    \/ n = 0
    \/ n \in TopEntries /\ tree[0] = "dir" /\ tree[n] # "none"
    \/ n \notin TopEntries /\ n # 0 /\ tree[n - MaxEntries] = "dir" /\ tree[n] # "none"

\* C15: Chown applies ownership to the root before anything else, to nothing
\* else when the root is no directory, never to a symlink nor to anything
\* behind a symlinked directory, which the walk does not enter, and, when no
\* system call fails, to every entry in the tree that is no symlink.
C15_ChownNeverFollowsSymlinks ==
    fsOp = "chown" =>
        /\ chFirst \in {-1, 0}
        /\ chowned # {} => (chFirst = 0 /\ 0 \in chowned)
        /\ \A n \in chowned : tree[n] \in {"file", "dir"} /\ InJail(n)
        /\ \A n \in visited : InJail(n)
        /\ tree[0] # "dir" => (visited = {} /\ chowned \subseteq {0})
        /\ (fspc = "done" /\ fsret = "nil" /\ ~fsFault) =>
              chowned = {n \in Entries : InJail(n) /\ tree[n] \in {"file", "dir"}}

C15_Witness ==
    \E c, d \in TopEntries :
        /\ fsOp = "chown"
        /\ fspc = "done"
        /\ fsret = "nil"
        /\ tree[c] = "dir"
        /\ tree[Under(c)] = "symfileOut"
        /\ tree[d] = "symdirOut"
        /\ visited = {0, c, d, Under(c)}
        /\ chowned = {0, c}

RECURSIVE SumOver(_, _)
SumOver(S, op) ==
    IF S = {} THEN 0
    ELSE LET n == CHOOSE k \in S : TRUE
         IN (IF op = "sizeLinux" THEN LstatSize(n) ELSE InfoSize(n))
            + SumOver(S \ {n}, op)

\* C16: when no system call of the walk fails, DirectorySize returns without
\* error the sum of the sizes of the entries in the tree that are neither
\* directories nor symlinks resolving outside the root; nothing behind a
\* symlink is visited; a root of one 100-byte file and one symlink pointing
\* outside gives 100.
C16_SizeSkipsEscapingSymlinks ==
    fsOp \in {"sizeLinux", "sizeOther"} =>
        /\ \A n \in visited : InJail(n)
        /\ fsret = "error" => fsFault
        /\ (fspc = "done" /\ ~fsFault) =>
              /\ fsret = "nil"
              /\ size = SumOver({n \in Entries : /\ InJail(n)
                                                 /\ tree[n] # "dir"
                                                 /\ tree[n] \notin EscapingKinds}, fsOp)
              /\ (/\ tree[1] = "file"
                  /\ FileSize(1) = 100
                  /\ \E d \in TopEntries :
                       /\ tree[d] \in EscapingKinds
                       /\ \A k \in TopEntries \ {1, d} : tree[k] = "none")
                 => size = 100

C16_Witness ==
    /\ fsOp = "sizeLinux"
    /\ fspc = "done"
    /\ fsret = "nil"
    /\ ~fsFault
    /\ tree[0] = "dir"
    /\ tree[1] = "file"
    /\ tree[2] = "symdirOut"
    /\ visited = {0, 1, 2}
    /\ size = 100

(* -------------------------- statistics claims ------------------------- *)
\* C17: the normalised memory of the cgroup build is usage minus
\* total_inactive_file when that counter is present and below usage, else
\* usage minus inactive_file when that counter is below usage, else usage;
\* it is usage whenever both counters are at or above usage.
C17_MemoryNormalised ==
    statFn = "memoryLinux" =>
        LET u == statIn.Usage
            t == statIn.total_inactive_file
            i == statIn.inactive_file
        IN /\ statOut.den = 1
           /\ (t >= 0 /\ t < u) => statOut.num = u - t
           /\ (~(t >= 0 /\ t < u) /\ i >= 0 /\ i < u) => statOut.num = u - i
           /\ (~(t >= 0 /\ t < u) /\ ~(i >= 0 /\ i < u)) => statOut.num = u
           /\ (t >= u /\ i >= u) => statOut.num = u

C17_Witness ==
    /\ statFn = "memoryLinux"
    /\ statIn.Usage = 3
    /\ statIn.total_inactive_file = 3
    /\ statIn.inactive_file = 1
    /\ statOut.num = 2

\* C18: the CPU percentage of the cgroup build is 0 whenever the container's
\* counter or the system's counter has not advanced between the previous and
\* the current reading, the current one being below the previous included.
C18_CpuZeroWithoutAdvance ==
    statFn = "cpuLinux" =>
        ((statIn.TotalUsage <= statIn.PreTotalUsage
          \/ statIn.SystemUsage <= statIn.PreSystemUsage) => statOut.num = 0)

C18_Witness ==
    /\ statFn = "cpuLinux"
    /\ statIn.TotalUsage = 0
    /\ statIn.PreTotalUsage = Modulus - 1
    /\ statIn.SystemUsage > statIn.PreSystemUsage
    /\ Float(statIn.SystemUsage) > Float(statIn.PreSystemUsage)
    /\ statIn.OnlineCPUs > 0
    /\ statOut.num = 0

\* C19 (as claimed): the CPU percentage of the other build is 0 whenever the
\* time elapsed between the two reads is zero or negative, and whenever the
\* total usage has not advanced between them.
C19_CpuZeroWithoutAdvance ==
    statFn = "cpuWindows" =>
        ((statIn.Elapsed <= 0 \/ statIn.TotalUsage <= statIn.PreTotalUsage)
            => statOut.num = 0)

\* C20 (as claimed): the CPU percentage of either build is between 0 and 100
\* times the number of cores of the reading (the online CPUs, or the per-CPU
\* counters when none is reported, in the cgroup build; the processors in the
\* other).
C20_CpuWithinCores ==
    /\ statFn = "cpuLinux" =>
          LET cores == IF statIn.OnlineCPUs = 0 THEN statIn.PercpuUsage
                       ELSE statIn.OnlineCPUs
          IN statOut.num >= 0 /\ statOut.num <= 100 * cores * statOut.den
    /\ statFn = "cpuWindows" =>
          (statOut.num >= 0 /\ statOut.num <= 100 * statIn.NumProcs * statOut.den)

(* ------------------------ uptime and stream claims -------------------- *)
\* Read - PreRead in milliseconds, summed over the first k samples of q that
\* have a PreRead.
RECURSIVE DeltaSum(_, _)
DeltaSum(q, k) ==
    IF k = 0 THEN 0
    ELSE DeltaSum(q, k - 1) + (IF q[k].preReadZero THEN 0 ELSE q[k].delta)

\* C24: the uptime of every published sample is what Uptime returned at the
\* start plus Read - PreRead of every sample decoded up to it that has a
\* PreRead; a sample without one carries the uptime of the sample before it;
\* Uptime is called once, before the loop.
C24_UptimeAccumulates ==
    /\ uptimeCalls <= 1
    /\ pc \in Streaming => uptimeCalls = 1
    /\ \A k \in 1..Len(published) :
         /\ k <= Len(received)
         /\ published[k].seq = received[k].seq
         /\ published[k].uptime = baseline + DeltaSum(received, k)
         /\ received[k].preReadZero =>
               published[k].uptime =
                  (IF k = 1 THEN baseline ELSE published[k - 1].uptime)

C24_Witness ==
    /\ Len(published) = 2
    /\ baseline = 1
    /\ received[1].preReadZero
    /\ received[1].delta > 0
    /\ ~received[2].preReadZero
    /\ published[1].uptime = 1
    /\ published[2].uptime = 1 + received[2].delta

\* C25: Uptime gives 0 and no error for a container that is not running, 0
\* and an error for a start timestamp that does not parse; pollResources
\* only logs the error, goes on with a baseline of 0 and leaves through the
\* same returns as without it.
C25_UptimeFailureNotFatal ==
    uptimeCalls = 1 =>
        /\ (~uptimeIns.err /\ ~uptimeIns.running) => (baseline = 0 /\ ~warned)
        /\ (~uptimeIns.err /\ uptimeIns.running /\ ~uptimeIns.parses)
              => (baseline = 0 /\ warned)
        /\ warned =>
              /\ baseline = 0
              /\ pc = "done" => (ret \in {"nil", "ctxErr"}
                                 /\ exitAt \in {"ctxDone", "decode", "offline"})
              /\ pc # "done" => pc \in Streaming

C25_Witness ==
    /\ uptimeCalls = 1
    /\ ~uptimeIns.err
    /\ uptimeIns.running
    /\ ~uptimeIns.parses
    /\ warned
    /\ Len(published) = 1
    /\ ~received[1].preReadZero
    /\ published[1].uptime = received[1].delta

\* C28: the stream body is open from the successful ContainerStats to the
\* return and closed once by it, whichever return it is; when ContainerStats
\* fails its error is returned, nothing is closed and nothing was published.
C28_StreamClosedOnce ==
    /\ bodyOpen <=> pc \in ({"uptime"} \cup Streaming)
    /\ pc # "done" => closes = 0
    /\ pc = "done" =>
         /\ exitAt \in {"ctxDone", "decode", "offline"}
               => (closes = 1 /\ statsCalls = 1)
         /\ exitAt = "attach"
               => (closes = 0 /\ ret = "errStats" /\ published = <<>>)
         /\ exitAt = "entry" => (closes = 0 /\ statsCalls = 0)

C28_Witness ==
    /\ pc = "done"
    /\ exitAt = "decode"
    /\ decodeErr = "other"
    /\ Len(published) = 1
    /\ closes = 1
    /\ ~bodyOpen

(* -------------------- Docker() singleton claims, continued ------------ *)
\* C26 (as claimed): every Docker() call that returned a nil error returned
\* a client that is not nil, calls after or during a failed construction
\* included.
C26_NilErrorMeansClient ==
    \A g \in Callers :
        (dret[g] # NoReturn /\ ~dret[g].err) => dret[g].client # "nil"

(* -------------------- network bootstrap claims, continued ------------- *)
\* C27 (as claimed): a call that created the missing network leaves the
\* configuration with the driver it was created with, and with the interface
\* and ISPN the switch gives for that driver, as if inspect had found it.
C27_CreatedKeepsDriver ==
    (npc = "done" /\ nret = "nil" /\ created = 1) =>
        /\ cfg.Driver = cfg0.Driver
        /\ cfg = DriverSemantics(IF GatewayWritten(cfg0.Driver)
                                 THEN WriteGateway(cfg0) ELSE cfg0,
                                 cfg0.Driver)

(* ------------------- filesystem claims, continued --------------------- *)
\* C29 (as claimed): in the godirwalk DirectorySize every entry the callback
\* counts adds its own size, or nothing when its stat failed: never the size
\* left in the shared Stat_t by an entry visited before it.
C29_EachEntryAddsOwnSize ==
    fsOp = "sizeLinux" =>
        \A n \in Entries : contrib[n] \in {-1, 0, LstatSize(n)}

C22_WindowsOmitsUnsupported ==
    hcFn \in {"limitsWindows", "resourcesWindows"} =>
        /\ limOut.MemorySwap = 0
        /\ ~limOut.PidsLimit.set
        /\ ~limOut.OomKillDisable.set
        /\ limOut.Memory = AsContainerResourcesLinux(limIn).Memory
        /\ limOut.CPUQuota = AsContainerResourcesLinux(limIn).CPUQuota
        /\ limOut.CPUShares = AsContainerResourcesLinux(limIn).CPUShares
        /\ limOut.CpusetCpus = AsContainerResourcesLinux(limIn).CpusetCpus

C22_Witness ==
    /\ hcFn = "limitsWindows"
    /\ limIn.MemoryLimit = 512
    /\ limIn.Swap = 256
    /\ limIn.OOMDisabled
    /\ limIn.PidLimit = 512
    /\ limIn.Threads = "0-1"
    /\ limOut.Memory = 512000000
    /\ limOut.MemorySwap = 0
    /\ limOut.CpusetCpus = "0-1"

\* C23: the other build hands the container bindings that all have an empty
\* host IP, for the same container ports, with as many bindings per port, in
\* the same order and with the same host ports as the allocations gave.
C23_WindowsBindingsNoHostIP ==
    hcFn = "bindingsWindows" =>
        /\ DOMAIN bindOut = DOMAIN bindIn
        /\ \A p \in DOMAIN bindIn :
             /\ Len(bindOut[p]) = Len(bindIn[p])
             /\ \A i \in 1..Len(bindIn[p]) :
                  /\ bindOut[p][i].HostIP = ""
                  /\ bindOut[p][i].HostPort = bindIn[p][i].HostPort

C23_Witness ==
    /\ hcFn = "bindingsWindows"
    /\ DOMAIN bindIn = ContainerPorts
    /\ Len(bindIn["25565/tcp"]) = 2
    /\ Len(bindIn["25565/udp"]) = 1
    /\ bindIn["25565/tcp"][1] = [HostIP |-> "10.0.0.5", HostPort |-> "25566"]
    /\ bindIn["25565/tcp"][2] = [HostIP |-> "0.0.0.0", HostPort |-> "25565"]
    /\ bindOut["25565/tcp"][1] = [HostIP |-> "", HostPort |-> "25566"]
    /\ bindOut["25565/tcp"][2] = [HostIP |-> "", HostPort |-> "25565"]

(* ------------------------- JWT algorithm claims ----------------------- *)
\* C30 (as claimed): whatever Set, Update and SetDebugViaFlag calls were
\* made, the JWT algorithm in memory, and so the one GetJwtAlgorithm
\* returns, is the one built from the token of the stored configuration.
C30_AlgorithmMatchesToken ==
    /\ storedConfig.set =>
          jwtAlgo = [alg |-> "HS256", key |-> storedConfig.AuthenticationToken]
    /\ (jwtGot.valid /\ jwtGot.algo.alg # "nil") => jwtGot.algo.key = jwtGot.token

====
